---- MODULE Spec2Model ----
(***************************************************************************)
(* A model of the oro expense tracker's service layer: the expense list    *)
(* (keyset pagination), the merchant-mapping store and resolver, the       *)
(* soft-delete / restore life cycle of an expense, and the categorization  *)
(* orchestrator with its deadline.  Each part has its own specification    *)
(* over the shared variables; a part's Init pins the variables of the      *)
(* other parts and its actions leave them unchanged.                       *)
(*                                                                         *)
(* Text is modelled as a sequence of one-character strings.  Timestamps    *)
(* are instants (naturals) with a textual form, identifiers are naturals   *)
(* with a textual form, and a confidence is a pair <<num, den>>.           *)
(***************************************************************************)
EXTENDS Integers, Sequences, FiniteSets, TLC

VARIABLES
  expenses,      \* table public.expenses: a set of rows
  listFilters,   \* filters of the running cursor chain
  listCursor,    \* cursor the latest list call was made with (decoded)
  listResp,      \* response of the latest list call
  listPages,     \* the pages returned so far by the chain, each a sequence of ids
  listSnapshot,  \* ids of the rows stored when the first page was fetched
  listInserted,  \* an insert happened after the first page was fetched
  mappings,      \* table public.merchant_mappings: a set of rows
  req,           \* merchant-mapping requests in flight: request slot -> record
  mapReply,      \* the reply of the merchant-mapping request that ended last
  learned,       \* history: upserts that succeeded and are still in force
  clock,         \* wall clock (Date.now()), in milliseconds
  ereq,          \* expense life-cycle requests in flight: request slot -> record
  lifeReply,     \* the reply of the expense life-cycle request that ended last
  cat,           \* the categorize call: record
  dash,          \* the dashboard call: its input and its response
  api,           \* the list request at the HTTP boundary: input, store calls, response
  probe,         \* a cursor string and what decoding it gave
  profiles,      \* table public.profiles: a set of rows
  created,       \* the create-expense call that ended last: input and result
  mlist,         \* the mapping list chain: filters, latest response, pages so far
  win            \* the month windows computed last: input and both results

vars == <<expenses, listFilters, listCursor, listResp, listPages, listSnapshot,
          listInserted, mappings, req, mapReply, learned, clock, ereq, lifeReply,
          cat, dash, api, probe, profiles, created, mlist, win>>

listVars == <<listFilters, listCursor, listResp, listPages, listSnapshot, listInserted>>
mapVars  == <<mappings, req, mapReply, learned>>
lifeVars == <<clock, ereq, lifeReply>>
moreVars == <<profiles, created, mlist, win>>
auxVars  == <<dash, api, probe, moreVars>>

NULL == "null"            \* a null enum or text-keyed value
NoInstant == 0 - 1        \* a null timestamptz; NaN of Date.parse
NoId == 0 - 1             \* no uuid
NullText == <<"null">>    \* a null string (no text holds a multi-character element)
NoCursor == [ok |-> FALSE, occurredAt |-> NullText, id |-> NullText]
NoResp == [items |-> <<>>, nextCursor |-> NullText, hasMore |-> FALSE]

(***************************************************************************)
(* Bounds of the model.                                                    *)
(***************************************************************************)
MaxExpenses == 3
MaxLimit == 2

Users == {"u1", "u2"}
Categories == {"c1", "c2"}
Accounts == {"cash", "card"}
Instants == 1 .. 2
ExpenseIds == 1 .. MaxExpenses

Max(a, b) == IF a >= b THEN a ELSE b
Min(a, b) == IF a <= b THEN a ELSE b

RECURSIVE Concat(_)
Concat(ss) == IF ss = <<>> THEN <<>> ELSE Head(ss) \o Concat(Tail(ss))

Range(s) == {s[i] : i \in 1 .. Len(s)}

(***************************************************************************)
(* Text forms.  A timestamptz value t is handed out by the store as the    *)
(* text IsoString(t); a uuid i as the text UuidString(i).                  *)
(***************************************************************************)
Digits == <<"0", "1", "2", "3", "4", "5", "6", "7", "8", "9">>

DigitChar(n) == Digits[n + 1]

IsoString(t) == <<"T", DigitChar(t), "Z">>
UuidString(i) == <<"u", DigitChar(i)>>

AllInstants == 0 .. 9
AllIds == 0 .. 9

\* Date.parse(text): the instant, or NULL for NaN
DateParse(text) ==
  IF \E t \in AllInstants : IsoString(t) = text
  THEN CHOOSE t \in AllInstants : IsoString(t) = text
  ELSE NoInstant

\* z.string().uuid(): the identifier, or NULL when the text is no uuid
UuidParse(text) ==
  IF \E i \in AllIds : UuidString(i) = text
  THEN CHOOSE i \in AllIds : UuidString(i) = text
  ELSE NoId

\* String.prototype.split(sep), sep one character
RECURSIVE Split(_, _)
Split(text, sep) ==
  IF \A k \in 1 .. Len(text) : text[k] # sep
  THEN <<text>>
  ELSE LET k == CHOOSE j \in 1 .. Len(text) :
                  text[j] = sep /\ \A m \in 1 .. j - 1 : text[m] # sep
       IN <<SubSeq(text, 1, k - 1)>> \o Split(SubSeq(text, k + 1, Len(text)), sep)

\* String.prototype.trim(), the blank being the one whitespace character
RECURSIVE Trim(_)
Trim(text) ==
  IF text = <<>> THEN <<>>
  ELSE IF Head(text) = " " THEN Trim(Tail(text))
  ELSE IF text[Len(text)] = " " THEN Trim(SubSeq(text, 1, Len(text) - 1))
  ELSE text

\* a token joined with another delimiter
encodeWithComma(cursor) == cursor.occurredAt \o <<",">> \o cursor.id

encodeExpenseCursor(cursor) == cursor.occurredAt \o <<"|">> \o cursor.id

\* cursorStringSchema: the trimmed string has two segments; each segment is
\* trimmed by cursorSegmentSchema and then checked
cursorStringValid(input) ==
  LET value == Trim(input)
      segments == Split(value, "|")
  IN /\ Len(value) > 0
     /\ Len(segments) = 2
     /\ Len(Trim(segments[1])) > 0
     /\ DateParse(Trim(segments[1])) # NoInstant
     /\ Len(Trim(segments[2])) > 0
     /\ UuidParse(Trim(segments[2])) # NoId

\* decodeExpenseCursor: the segments of the trimmed string as they stand;
\* ok is FALSE where the schema throws
decodeExpenseCursor(input) ==
  IF cursorStringValid(input)
  THEN LET segments == Split(Trim(input), "|")
       IN [ok |-> TRUE, occurredAt |-> segments[1], id |-> segments[2]]
  ELSE NoCursor

(***************************************************************************)
(* The expense list: getExpenses.                                          *)
(***************************************************************************)
MAX_PAGE_LIMIT == 50

\* order by occurred_at desc, id desc: r comes before q
RowBefore(r, q) ==
  \/ r.occurred_at > q.occurred_at
  \/ r.occurred_at = q.occurred_at /\ r.id > q.id

RECURSIVE OrderDesc(_)
OrderDesc(S) ==
  IF S = {} THEN <<>>
  ELSE LET first == CHOOSE r \in S : \A q \in S \ {r} : RowBefore(r, q)
       IN <<first>> \o OrderDesc(S \ {first})

\* occurred_at.lt.X,and(occurred_at.eq.X,id.lt.Y)
buildCursorClause(row, occurredAt, id) ==
  \/ row.occurred_at < DateParse(occurredAt)
  \/ row.occurred_at = DateParse(occurredAt) /\ row.id < UuidParse(id)

\* the where-clause createExpensesQuery builds
QueryMatches(row, userId, filters, cursor) ==
  /\ row.user_id = userId
  /\ (~filters.includeDeleted => row.deleted_at = NoInstant)
  /\ (filters.from # NoInstant => row.occurred_at >= filters.from)
  /\ (filters.to # NoInstant => row.occurred_at <= filters.to)
  /\ (filters.categoryIds # {} => row.category_id \in filters.categoryIds)
  /\ (filters.account # NULL => row.account = filters.account)
  /\ (cursor.ok => buildCursorClause(row, cursor.occurredAt, cursor.id))

FetchLimitDropped(limit) == limit

\* .limit(limit + 1)
FetchLimit(limit) == limit + 1

createExpensesQuery(store, userId, filters, cursor) ==
  LET ordered == OrderDesc({row \in store : QueryMatches(row, userId, filters, cursor)})
  IN SubSeq(ordered, 1, Min(Len(ordered), FetchLimit(filters.limit)))

toExpenseDTO(row) ==
  [id |-> UuidString(row.id),
   occurredAt |-> IsoString(row.occurred_at),
   account |-> row.account,
   categoryId |-> row.category_id,
   deleted |-> (row.deleted_at # NoInstant),
   deletedAt |-> row.deleted_at]

computeNextCursor(rows, limit) ==
  IF Len(rows) <= limit
  THEN NullText
  ELSE LET next == rows[limit + 1]   \* rows[limit], zero-based
       IN encodeExpenseCursor([occurredAt |-> IsoString(next.occurred_at),
                               id |-> UuidString(next.id)])

getExpenses(store, userId, filters, cursor) ==
  LET data == createExpensesQuery(store, userId, filters, cursor)
      kept == SubSeq(data, 1, Min(Len(data), filters.limit))
  IN [items |-> [i \in 1 .. Len(kept) |-> toExpenseDTO(kept[i])],
      nextCursor |-> computeNextCursor(data, filters.limit),
      hasMore |-> Len(data) > filters.limit]

\* the filter sets the list is called with: one dimension varied at a time
NoFilter(limit) ==
  [includeDeleted |-> FALSE, from |-> NoInstant, to |-> NoInstant, categoryIds |-> {},
   account |-> NULL, limit |-> limit]

ListFilterChoices ==
  UNION {{NoFilter(n),
          [NoFilter(n) EXCEPT !.includeDeleted = TRUE],
          [NoFilter(n) EXCEPT !.account = "cash"],
          [NoFilter(n) EXCEPT !.categoryIds = {"c1"}],
          [NoFilter(n) EXCEPT !.from = 2, !.to = 2]} : n \in 1 .. MaxLimit}

\* the rows of one id that inserts and soft deletes can have produced
ActiveKinds ==
  {[user_id |-> "u1", account |-> "cash", category_id |-> "c1", deleted_at |-> NoInstant],
   [user_id |-> "u1", account |-> "card", category_id |-> "c2", deleted_at |-> NoInstant]}

MakeRow(id, t, kind) ==
  [id |-> id, occurred_at |-> t, user_id |-> kind.user_id, account |-> kind.account,
   category_id |-> kind.category_id, deleted_at |-> kind.deleted_at]

InsertableRows(id) ==
  {MakeRow(id, t, kind) : t \in Instants, kind \in ActiveKinds}
    \cup {[id |-> id, occurred_at |-> 2, user_id |-> "u2", account |-> "cash",
           category_id |-> "c1", deleted_at |-> NoInstant]}

StoredRows(id) ==
  InsertableRows(id)
    \cup {[id |-> id, occurred_at |-> 2, user_id |-> "u1", account |-> "cash",
           category_id |-> "c1", deleted_at |-> 1]}

ExpenseStores ==
  UNION {{{f[id] : id \in D} : f \in {g \in [D -> UNION {StoredRows(i) : i \in D}] :
                                        \A id \in D : g[id] \in StoredRows(id)}}
         : D \in SUBSET ExpenseIds}

PageIds(resp) == [i \in 1 .. Len(resp.items) |-> UuidParse(resp.items[i].id)]

\* insertExpense: a new row under a fresh id (gen_random_uuid: any unused id)
InsertExpense ==
  /\ \E id \in ExpenseIds :
       /\ \A r \in expenses : r.id # id
       /\ \E row \in InsertableRows(id) : expenses' = expenses \cup {row}
  /\ listInserted' = (listInserted \/ listPages # <<>>)
  /\ UNCHANGED <<listFilters, listCursor, listResp, listPages, listSnapshot>>
  /\ UNCHANGED <<mapVars, lifeVars, cat, auxVars>>

\* GET /expenses without a cursor: the first page of a chain
ListFirstPage ==
  /\ listPages = <<>>
  /\ \E filters \in ListFilterChoices :
       LET resp == getExpenses(expenses, "u1", filters, NoCursor)
       IN /\ listFilters' = filters
          /\ listCursor' = NoCursor
          /\ listResp' = resp
          /\ listPages' = <<PageIds(resp)>>
  /\ listSnapshot' = {r.id : r \in expenses}
  /\ UNCHANGED <<expenses, listInserted>>
  /\ UNCHANGED <<mapVars, lifeVars, cat, auxVars>>

\* GET /expenses?cursor=<nextCursor of the latest response>, same filters
ListNextPage ==
  /\ listPages # <<>>
  /\ listResp.nextCursor # NullText
  /\ LET cursor == decodeExpenseCursor(listResp.nextCursor)
     IN /\ cursor.ok
        /\ LET resp == getExpenses(expenses, "u1", listFilters, cursor)
           IN /\ listCursor' = cursor
              /\ listResp' = resp
              /\ listPages' = Append(listPages, PageIds(resp))
  /\ UNCHANGED <<expenses, listFilters, listSnapshot, listInserted>>
  /\ UNCHANGED <<mapVars, lifeVars, cat, auxVars>>

IdleMap == (mappings = {} /\ req = <<>> /\ mapReply = <<>> /\ learned = {})
IdleLife == (clock = 0 /\ ereq = <<>> /\ lifeReply = <<>>)
IdleCat == (cat = <<>>)
IdleMore == (profiles = {} /\ created = <<>> /\ mlist = <<>> /\ win = <<>>)
IdleAux == (dash = <<>> /\ api = <<>> /\ probe = <<>> /\ IdleMore)
IdleList ==
  /\ listFilters = NoFilter(1) /\ listCursor = NoCursor /\ listResp = NoResp
  /\ listPages = <<>> /\ listSnapshot = {} /\ listInserted = FALSE

ListInit ==
  /\ expenses \in ExpenseStores
  /\ IdleList /\ IdleMap /\ IdleLife /\ IdleCat /\ IdleAux

ListNext == InsertExpense \/ ListFirstPage \/ ListNextPage

ListSpec == ListInit /\ [][ListNext]_vars

(***************************************************************************)
(* Merchant mappings: upsert, update, delete and resolve.                  *)
(***************************************************************************)
MappingIds == {1, 2}
ReqSlots == {"r1", "r2"}

\* raw merchant names the upsert requests carry
LearnedNames == {<<"A", "a", "b">>, <<"a", "a", "a", "b">>}

\* raw merchant names the resolve requests carry
RawNames == LearnedNames \cup {<<"a", "a", "-", "b">>, <<"a", " ", "a">>}

UpperCase == <<"A", "B">>
LowerCase == <<"a", "b">>

\* String.prototype.toLowerCase, one character
toLowerCase(ch) ==
  IF \E k \in 1 .. Len(UpperCase) : UpperCase[k] = ch
  THEN LowerCase[CHOOSE k \in 1 .. Len(UpperCase) : UpperCase[k] = ch]
  ELSE ch

\* the character class [a-z0-9]
IsLowerAlnum(ch) == ch \in Range(LowerCase) \cup Range(Digits)

RECURSIVE StripNonAlnum(_)
StripNonAlnum(text) ==
  IF text = <<>> THEN <<>>
  ELSE IF IsLowerAlnum(Head(text))
       THEN <<Head(text)>> \o StripNonAlnum(Tail(text))
       ELSE StripNonAlnum(Tail(text))

StripOnly(name) == StripNonAlnum(name)

\* normalizeMerchantName of the upsert service
normalizeMerchantName(name) ==
  StripNonAlnum([k \in 1 .. Len(name) |-> toLowerCase(name[k])])

\* normalizeMerchantName of the resolve service (its own copy)
resolveNormalizeMerchantName(name) ==
  StripNonAlnum([k \in 1 .. Len(name) |-> toLowerCase(name[k])])

\* pg_trgm: the trigrams of a one-word key, padded with two blanks and one
Trigrams(key) ==
  IF key = <<>> THEN {}
  ELSE LET padded == <<" ", " ">> \o key \o <<" ">>
       IN {SubSeq(padded, k, k + 2) : k \in 1 .. Len(padded) - 2}

\* pg_trgm similarity(a, b), as the fraction <<shared, all>>
similarity(a, b) ==
  LET ta == Trigrams(a)
      tb == Trigrams(b)
  IN IF ta = {} \/ tb = {} THEN <<0, 1>>
     ELSE <<Cardinality(ta \cap tb), Cardinality(ta \cup tb)>>

\* c >= t for fractions with positive denominators
ConfAtLeast(c, t) == c[1] * t[2] >= t[1] * c[2]

LowThreshold == <<1, 5>>

\* p_threshold: 0.8
TRIGRAM_THRESHOLD == <<4, 5>>

EXACT_CONFIDENCE == <<1, 1>>

NoMapping == [id |-> NoId, user_id |-> NULL, merchant_key |-> NullText, category_id |-> NULL]
NoMatch ==
  [categoryId |-> NULL, confidence |-> <<0, 1>>, matchType |-> NULL,
   merchantKey |-> NullText]

\* findExactMatch: the rows with exactly this user and key
findExactMatch(userId, merchantKey) ==
  {row \in mappings : row.user_id = userId /\ row.merchant_key = merchantKey}

\* find_best_merchant_match: the rows limit 1 may return (ties are arbitrary)
find_best_merchant_match(store, p_user_id, p_merchant_key, p_threshold) ==
  LET above == {mm \in store :
                  /\ mm.user_id = p_user_id
                  /\ ConfAtLeast(similarity(mm.merchant_key, p_merchant_key), p_threshold)}
  IN {mm \in above :
        \A other \in above :
          ConfAtLeast(similarity(mm.merchant_key, p_merchant_key),
                      similarity(other.merchant_key, p_merchant_key))}

findTrigramMatch(store, userId, merchantKey) ==
  find_best_merchant_match(store, userId, merchantKey, TRIGRAM_THRESHOLD)

IdleReq ==
  [op |-> "idle", pc |-> "idle", name |-> NullText, categoryId |-> NULL,
   wasCreated |-> FALSE]

\* prior: the mapping an upsert found in place when it wrote
Reply(op, name, code, match, row, wasCreated) ==
  [op |-> op, name |-> name, code |-> code, match |-> match,
   row |-> row, wasCreated |-> wasCreated, prior |-> NoMapping]

\* the history of a row is void once the row is deleted or its category set
Forget(id) == {e \in learned : e.id # id}

\* upsertMerchantMapping, steps 1 and 2: ensureCategoryExists, normalize
UpsertBegin(slot) ==
  /\ req[slot].op = "idle"
  /\ \E name \in LearnedNames, categoryId \in Categories \cup {"c9"} :
       IF categoryId \in Categories
       THEN /\ req' = [req EXCEPT ![slot] =
                         [op |-> "upsert", pc |-> "select", name |-> name,
                          categoryId |-> categoryId, wasCreated |-> FALSE]]
            /\ UNCHANGED mapReply
       ELSE /\ mapReply' = Reply("upsert", name, "CATEGORY_NOT_FOUND",
                                 NoMatch, NoMapping, FALSE)
            /\ UNCHANGED req
  /\ UNCHANGED <<mappings, learned>>
  /\ UNCHANGED <<expenses, listVars, lifeVars, cat, auxVars>>

\* step 3: look for an existing mapping to tell create from update
UpsertSelect(slot) ==
  /\ req[slot].op = "upsert" /\ req[slot].pc = "select"
  /\ LET merchantKey == normalizeMerchantName(req[slot].name)
         existing == {row \in mappings :
                        row.user_id = "u1" /\ row.merchant_key = merchantKey}
     IN req' = [req EXCEPT ![slot].pc = "write", ![slot].wasCreated = (existing = {})]
  /\ UNCHANGED <<mappings, mapReply, learned>>
  /\ UNCHANGED <<expenses, listVars, lifeVars, cat, auxVars>>

InsertAlways(store, userId, merchantKey, categoryId, id) ==
  store \cup {[id |-> id, user_id |-> userId, merchant_key |-> merchantKey,
               category_id |-> categoryId]}

\* the conflict taken on the key alone, the row handed to the caller
ConflictOnKeyOnly(store, userId, merchantKey, categoryId, id) ==
  IF \E row \in store : row.merchant_key = merchantKey
  THEN {IF row.merchant_key = merchantKey
        THEN [row EXCEPT !.category_id = categoryId, !.user_id = userId]
        ELSE row : row \in store}
  ELSE store \cup {[id |-> id, user_id |-> userId, merchant_key |-> merchantKey,
                    category_id |-> categoryId]}

\* the conflicting row deleted and a new one inserted in its place
ReplaceRow(store, userId, merchantKey, categoryId, id) ==
  {row \in store : ~(row.user_id = userId /\ row.merchant_key = merchantKey)}
    \cup {[id |-> id, user_id |-> userId, merchant_key |-> merchantKey,
            category_id |-> categoryId]}

\* insert ... on conflict (user_id, merchant_key) do update set category_id
UpsertRow(store, userId, merchantKey, categoryId, id) ==
  IF \E row \in store : row.user_id = userId /\ row.merchant_key = merchantKey
  THEN {IF row.user_id = userId /\ row.merchant_key = merchantKey
        THEN [row EXCEPT !.category_id = categoryId]
        ELSE row : row \in store}
  ELSE store \cup {[id |-> id, user_id |-> userId, merchant_key |-> merchantKey,
                    category_id |-> categoryId]}

\* gen_random_uuid(): an id no row of the table holds
FreshId(store) ==
  CHOOSE id \in MappingIds :
    /\ \A row \in store : row.id # id
    /\ \A other \in MappingIds : other < id => \E row \in store : row.id = other

\* step 4: the upsert itself, or a store error that writes nothing
UpsertWrite(slot) ==
  /\ req[slot].op = "upsert" /\ req[slot].pc = "write"
  /\ LET merchantKey == normalizeMerchantName(req[slot].name)
     IN \/ LET id == FreshId(mappings)
           IN
             /\ mappings' = UpsertRow(mappings, "u1", merchantKey, req[slot].categoryId, id)
             /\ LET saved == CHOOSE row \in mappings' :
                               row.user_id = "u1" /\ row.merchant_key = merchantKey
                       conflicting == {row \in mappings :
                                         row.user_id = "u1"
                                           /\ row.merchant_key = merchantKey}
                IN /\ mapReply' = [Reply("upsert", req[slot].name, "ok", NoMatch,
                                         saved, req[slot].wasCreated)
                                     EXCEPT !.prior = IF conflicting = {} THEN NoMapping
                                                      ELSE CHOOSE row \in conflicting : TRUE]
                   /\ learned' = Forget(saved.id) \cup
                                   {[id |-> saved.id, userId |-> "u1",
                                     name |-> req[slot].name,
                                     categoryId |-> req[slot].categoryId]}
        \/ /\ mapReply' = Reply("upsert", req[slot].name,
                                "MERCHANT_MAPPING_UPSERT_FAILED", NoMatch, NoMapping, FALSE)
           /\ UNCHANGED <<mappings, learned>>
  /\ req' = [req EXCEPT ![slot] = IdleReq]
  /\ UNCHANGED <<expenses, listVars, lifeVars, cat, auxVars>>

\* updateMerchantMapping: set the category of the caller's mapping `id`
UpdateMerchantMapping(slot) ==
  /\ req[slot].op = "idle"
  /\ \E id \in MappingIds \cup {0}, categoryId \in Categories :
       LET hit == {row \in mappings : row.id = id /\ row.user_id = "u1"}
       IN IF hit = {}
          THEN /\ mapReply' = Reply("update", NullText, "MERCHANT_MAPPING_NOT_FOUND",
                                    NoMatch, NoMapping, FALSE)
               /\ UNCHANGED <<mappings, learned>>
          ELSE /\ mappings' = {IF row \in hit THEN [row EXCEPT !.category_id = categoryId]
                               ELSE row : row \in mappings}
               /\ mapReply' = Reply("update", NullText, "ok", NoMatch,
                                    NoMapping, FALSE)
               /\ learned' = Forget(id)
  /\ UNCHANGED req
  /\ UNCHANGED <<expenses, listVars, lifeVars, cat, auxVars>>

\* deleteMerchantMapping: delete the caller's mapping `id`
DeleteMerchantMapping(slot) ==
  /\ req[slot].op = "idle"
  /\ \E id \in MappingIds \cup {0} :
       LET hit == {row \in mappings : row.id = id /\ row.user_id = "u1"}
       IN IF hit = {}
          THEN /\ mapReply' = Reply("delete", NullText, "MERCHANT_MAPPING_NOT_FOUND",
                                    NoMatch, NoMapping, FALSE)
               /\ UNCHANGED <<mappings, learned>>
          ELSE /\ mappings' = mappings \ hit
               /\ mapReply' = Reply("delete", NullText, "ok", NoMatch,
                                    NoMapping, FALSE)
               /\ learned' = Forget(id)
  /\ UNCHANGED req
  /\ UNCHANGED <<expenses, listVars, lifeVars, cat, auxVars>>

\* resolveMerchantMapping, steps 1 and 2: normalize, exact match
ResolveExact(slot) ==
  /\ req[slot].op = "idle"
  /\ \E name \in RawNames :
       LET merchantKey == resolveNormalizeMerchantName(name)
           exactMatch == findExactMatch("u1", merchantKey)
       IN IF exactMatch # {}
          THEN /\ \E row \in exactMatch :
                    mapReply' = Reply("resolve", name, "ok",
                                      [categoryId |-> row.category_id,
                                       confidence |-> EXACT_CONFIDENCE,
                                       matchType |-> "exact",
                                       merchantKey |-> row.merchant_key],
                                      NoMapping, FALSE)
               /\ UNCHANGED req
          ELSE /\ req' = [req EXCEPT ![slot] =
                            [op |-> "resolve", pc |-> "trigram", name |-> name,
                             categoryId |-> NULL, wasCreated |-> FALSE]]
               /\ UNCHANGED mapReply
  /\ UNCHANGED <<mappings, learned>>
  /\ UNCHANGED <<expenses, listVars, lifeVars, cat, auxVars>>

\* step 3: the best trigram match at or above the threshold, or no match
ResolveTrigram(slot) ==
  /\ req[slot].op = "resolve" /\ req[slot].pc = "trigram"
  /\ LET merchantKey == resolveNormalizeMerchantName(req[slot].name)
         best == findTrigramMatch(mappings, "u1", merchantKey)
     IN IF best = {}
        THEN mapReply' = Reply("resolve", req[slot].name, "ok", NoMatch,
                               NoMapping, FALSE)
        ELSE \E row \in best :
               mapReply' = Reply("resolve", req[slot].name, "ok",
                                 [categoryId |-> row.category_id,
                                  confidence |-> similarity(row.merchant_key, merchantKey),
                                  matchType |-> "trigram",
                                  merchantKey |-> row.merchant_key],
                                 NoMapping, FALSE)
  /\ req' = [req EXCEPT ![slot] = IdleReq]
  /\ UNCHANGED <<mappings, learned>>
  /\ UNCHANGED <<expenses, listVars, lifeVars, cat, auxVars>>

\* POST /merchant-mappings: 201 Created for a new mapping, 200 OK otherwise
statusCode(wasCreated) == IF wasCreated THEN 201 ELSE 200

\* another user's mapping for a key the caller uses
OtherUsersMapping ==
  [id |-> 0, user_id |-> "u2", merchant_key |-> <<"a", "a", "b">>, category_id |-> "c2"]

MapInit ==
  /\ mappings = {OtherUsersMapping}
  /\ req = [slot \in ReqSlots |-> IdleReq]
  /\ mapReply = Reply("none", NullText, "none", NoMatch, NoMapping, FALSE)
  /\ learned = {}
  /\ expenses = {} /\ IdleList /\ IdleLife /\ IdleCat /\ IdleAux

MapNext ==
  \E slot \in ReqSlots :
    \/ UpsertBegin(slot)
    \/ UpsertSelect(slot)
    \/ UpsertWrite(slot)
    \/ UpdateMerchantMapping(slot)
    \/ DeleteMerchantMapping(slot)
    \/ ResolveExact(slot)
    \/ ResolveTrigram(slot)

MapSpec == MapInit /\ [][MapNext]_vars

(***************************************************************************)
(* The life cycle of an expense: create, update, soft delete, restore.     *)
(***************************************************************************)
\* 7-day retention window in milliseconds
RETENTION_WINDOW_MS == 7 * 24 * 60 * 60 * 1000

\* the instants the clock takes: two deletions a millisecond apart, and the
\* instants a window after each of them, and a millisecond later
ClockTimes ==
  {0, 1, RETENTION_WINDOW_MS, RETENTION_WINDOW_MS + 1, RETENTION_WINDOW_MS + 2}

LifeSlots == {"e1", "e2"}

\* the caller's expense, and one that belongs to another user
OwnExpenseIds == {1}
OtherUsersExpense ==
  [id |-> 2, occurred_at |-> 1, user_id |-> "u2", account |-> "cash",
   category_id |-> "c1", deleted_at |-> 0]

IdleEreq ==
  [op |-> "idle", pc |-> "idle", expenseId |-> NoId, categoryId |-> NULL,
   currentTime |-> NoInstant]

\* no expense in a reply
NoExpense ==
  [id |-> NullText, occurredAt |-> NullText, account |-> NULL, categoryId |-> NULL,
   deleted |-> FALSE, deletedAt |-> NoInstant]

LifeReply(op, expenseId, code, timeSinceDeletion) ==
  [op |-> op, expenseId |-> expenseId, code |-> code,
   timeSinceDeletion |-> timeSinceDeletion, expense |-> NoExpense]

\* the generated column: deleted_at is not null
deleted(row) == row.deleted_at # NoInstant

\* the select without its eq(deleted, flag)
selectWhateverState(expenseId, userId, flag) ==
  {row \in expenses : row.id = expenseId /\ row.user_id = userId}

\* select ... eq(id).eq(user_id).eq(deleted, flag).maybeSingle()
selectExpense(expenseId, userId, flag) ==
  {row \in expenses : row.id = expenseId /\ row.user_id = userId /\ deleted(row) = flag}

\* update(payload).eq(id).eq(user_id): the row's deleted flag is not asked
updateExpenseRow(expenseId, userId, column, value) ==
  {IF row.id = expenseId /\ row.user_id = userId
   THEN [row EXCEPT ![column] = value]
   ELSE row : row \in expenses}

\* time passes
Tick ==
  /\ \E t \in ClockTimes : t > clock /\ clock' = t
  /\ UNCHANGED <<expenses, ereq, lifeReply>>
  /\ UNCHANGED <<listVars, mapVars, cat, auxVars>>

\* createExpense: insert an active row of the caller
CreateExpense(slot) ==
  /\ ereq[slot].op = "idle"
  /\ \E id \in OwnExpenseIds, categoryId \in Categories :
       /\ \A row \in expenses : row.id # id
       /\ expenses' = expenses \cup
            {[id |-> id, occurred_at |-> 1, user_id |-> "u1", account |-> "cash",
              category_id |-> categoryId, deleted_at |-> NoInstant]}
       /\ lifeReply' = LifeReply("create", id, "ok", NoInstant)
  /\ UNCHANGED <<clock, ereq>>
  /\ UNCHANGED <<listVars, mapVars, cat, auxVars>>

\* updateExpense, fetchExpenseForUpdate: the expense exists and is not deleted
UpdateCheck(slot) ==
  /\ ereq[slot].op = "idle"
  /\ \E expenseId \in OwnExpenseIds \cup {2}, categoryId \in Categories :
       IF selectExpense(expenseId, "u1", FALSE) = {}
       THEN /\ lifeReply' = LifeReply("update", expenseId, "EXPENSE_NOT_FOUND", NoInstant)
            /\ UNCHANGED ereq
       ELSE /\ ereq' = [ereq EXCEPT ![slot] =
                          [op |-> "update", pc |-> "write", expenseId |-> expenseId,
                           categoryId |-> categoryId, currentTime |-> NoInstant]]
            /\ UNCHANGED lifeReply
  /\ UNCHANGED <<expenses, clock>>
  /\ UNCHANGED <<listVars, mapVars, cat, auxVars>>

\* buildUpdatePayload: a column of the command; deleted_at is none of them
buildUpdatePayload(categoryId) == [column |-> "category_id", value |-> categoryId]

\* updateExpense: the update itself
UpdateWrite(slot) ==
  /\ ereq[slot].op = "update" /\ ereq[slot].pc = "write"
  /\ LET payload == buildUpdatePayload(ereq[slot].categoryId)
     IN expenses' = updateExpenseRow(ereq[slot].expenseId, "u1",
                                     payload.column, payload.value)
  /\ lifeReply' = LifeReply("update", ereq[slot].expenseId, "ok", NoInstant)
  /\ ereq' = [ereq EXCEPT ![slot] = IdleEreq]
  /\ UNCHANGED clock
  /\ UNCHANGED <<listVars, mapVars, cat, auxVars>>

\* softDeleteExpense: the expense exists and is not deleted
SoftDeleteCheck(slot) ==
  /\ ereq[slot].op = "idle"
  /\ \E expenseId \in OwnExpenseIds \cup {2} :
       IF selectExpense(expenseId, "u1", FALSE) = {}
       THEN /\ lifeReply' = LifeReply("delete", expenseId, "EXPENSE_NOT_FOUND", NoInstant)
            /\ UNCHANGED ereq
       ELSE /\ ereq' = [ereq EXCEPT ![slot] =
                          [op |-> "delete", pc |-> "write", expenseId |-> expenseId,
                           categoryId |-> NULL, currentTime |-> NoInstant]]
            /\ UNCHANGED lifeReply
  /\ UNCHANGED <<expenses, clock>>
  /\ UNCHANGED <<listVars, mapVars, cat, auxVars>>

\* softDeleteExpense: set deleted_at to now
SoftDeleteWrite(slot) ==
  /\ ereq[slot].op = "delete" /\ ereq[slot].pc = "write"
  /\ expenses' = updateExpenseRow(ereq[slot].expenseId, "u1", "deleted_at", clock)
  /\ lifeReply' = LifeReply("delete", ereq[slot].expenseId, "ok", NoInstant)
  /\ ereq' = [ereq EXCEPT ![slot] = IdleEreq]
  /\ UNCHANGED clock
  /\ UNCHANGED <<listVars, mapVars, cat, auxVars>>

NeverExpired(timeSinceDeletion) == FALSE

\* timeSinceDeletion > RETENTION_WINDOW_MS
windowExpired(timeSinceDeletion) == timeSinceDeletion > RETENTION_WINDOW_MS

\* POST /expenses/{id}/restore: the status answered for a service error
restoreErrorStatus(code) ==
  CASE code \in {"EXPENSE_NOT_FOUND", "UNAUTHORIZED_ACCESS"} -> 404
    [] code \in {"EXPENSE_NOT_DELETED", "RETENTION_WINDOW_EXPIRED"} -> 409
    [] code \in {"SUPABASE_NOT_AVAILABLE", "EXPENSE_QUERY_FAILED",
                 "EXPENSE_UPDATE_FAILED"} -> 500
    [] code = "ok" -> 200
    [] OTHER -> 500

\* restoreExpense: the expense exists, is deleted, and its window is open
RestoreCheck(slot) ==
  /\ ereq[slot].op = "idle"
  /\ \E expenseId \in OwnExpenseIds \cup {2} :
       LET existing == selectExpense(expenseId, "u1", TRUE)
       IN IF existing = {}
          THEN /\ lifeReply' = LifeReply("restore", expenseId, "EXPENSE_NOT_FOUND", NoInstant)
               /\ UNCHANGED ereq
          ELSE LET existingExpense == CHOOSE row \in existing : TRUE
                   timeSinceDeletion == clock - existingExpense.deleted_at
               IN IF existingExpense.deleted_at = NoInstant
                  THEN /\ lifeReply' = LifeReply("restore", expenseId,
                                                 "EXPENSE_NOT_DELETED", NoInstant)
                       /\ UNCHANGED ereq
                  ELSE IF windowExpired(timeSinceDeletion)
                  THEN /\ lifeReply' = LifeReply("restore", expenseId,
                                                 "RETENTION_WINDOW_EXPIRED",
                                                 timeSinceDeletion)
                       /\ UNCHANGED ereq
                  ELSE /\ ereq' = [ereq EXCEPT ![slot] =
                                     [op |-> "restore", pc |-> "write",
                                      expenseId |-> expenseId, categoryId |-> NULL,
                                      currentTime |-> clock]]
                       /\ UNCHANGED lifeReply
  /\ UNCHANGED <<expenses, clock>>
  /\ UNCHANGED <<listVars, mapVars, cat, auxVars>>

\* restoreExpense: clear deleted_at
RestoreWrite(slot) ==
  /\ ereq[slot].op = "restore" /\ ereq[slot].pc = "write"
  /\ expenses' = updateExpenseRow(ereq[slot].expenseId, "u1", "deleted_at", NoInstant)
  /\ \E row \in expenses :
       /\ row.id = ereq[slot].expenseId
       /\ lifeReply' = LifeReply("restore", row.id, "ok",
                                 IF deleted(row)
                                 THEN ereq[slot].currentTime - row.deleted_at
                                 ELSE NoInstant)
  /\ ereq' = [ereq EXCEPT ![slot] = IdleEreq]
  /\ UNCHANGED clock
  /\ UNCHANGED <<listVars, mapVars, cat, auxVars>>

LifeInit ==
  /\ expenses = {OtherUsersExpense}
  /\ clock = 0
  /\ ereq = [slot \in LifeSlots |-> IdleEreq]
  /\ lifeReply = LifeReply("none", NoId, "none", NoInstant)
  /\ IdleList /\ IdleMap /\ IdleCat /\ IdleAux

LifeNext ==
  \/ Tick
  \/ \E slot \in LifeSlots :
       \/ CreateExpense(slot)
       \/ UpdateCheck(slot)
       \/ UpdateWrite(slot)
       \/ SoftDeleteCheck(slot)
       \/ SoftDeleteWrite(slot)
       \/ RestoreCheck(slot)
       \/ RestoreWrite(slot)

LifeSpec == LifeInit /\ [][LifeNext]_vars

(***************************************************************************)
(* Categorization: the mapping resolver first, then the provider raced     *)
(* against a deadline.                                                     *)
(***************************************************************************)
\* enforce 400 ms timeout server-side
PROVIDER_DEADLINE_MS == 400

\* show top 3 suggestions
MAX_SUGGESTIONS == 3

\* apply category automatically when confidence >= 0.75
AUTO_APPLY_THRESHOLD == <<75, 100>>

\* milliseconds since the provider was invoked at which something happens
CatTimes ==
  {0, 180, PROVIDER_DEADLINE_MS - 1, PROVIDER_DEADLINE_MS, PROVIDER_DEADLINE_MS + 1}

Suggestion(categoryId, hundredths) ==
  [categoryId |-> categoryId, confidence |-> <<hundredths, 100>>]

\* ranked lists of suggestions the provider may answer with
ProviderResponses ==
  {<<Suggestion("c1", 82), Suggestion("c2", 64), Suggestion("c3", 55)>>,
   <<Suggestion("c2", 75)>>,
   <<Suggestion("c1", 74), Suggestion("c2", 60)>>,
   <<Suggestion("c3", 90), Suggestion("c1", 80), Suggestion("c2", 70),
     Suggestion("c4", 60)>>,
   <<Suggestion("c1", 50), Suggestion("c2", 40), Suggestion("c3", 30),
     Suggestion("c4", 20)>>}

NoConfidence == <<0, 1>>

\* CategorizeExpenseResponse, with the kind of outcome it stands for
CategorizationOutcome(kind, categoryId, confidence, suggestions, timedOut, latencyMs) ==
  [kind |-> kind, autoAppliedCategoryId |-> categoryId, confidence |-> confidence,
   suggestions |-> suggestions, timedOut |-> timedOut, latencyMs |-> latencyMs]

NoOutcome == CategorizationOutcome("none", NULL, NoConfidence, <<>>, FALSE, 0)

\* the ai_logs row of a provider invocation
AiLog(confidence, latencyMs, timedOut, errorCode) ==
  [confidence |-> confidence, latency_ms |-> latencyMs, timed_out |-> timedOut,
   error_code |-> errorCode]

NoAiLog == AiLog(NoConfidence, 0, FALSE, "none")

IdleCategorize ==
  [pc |-> "idle", name |-> NullText, elapsed |-> 0, provider |-> "none",
   respondedAt |-> NoInstant, response |-> <<>>, aborted |-> FALSE,
   outcome |-> NoOutcome, log |-> NoAiLog]

\* MappingResolver: the exact match if there is one, else the best fuzzy match
resolveMerchantMapping(userId, name) ==
  LET merchantKey == resolveNormalizeMerchantName(name)
      exactMatch == findExactMatch(userId, merchantKey)
  IN IF exactMatch # {}
     THEN {[categoryId |-> row.category_id, confidence |-> EXACT_CONFIDENCE] :
             row \in exactMatch}
     ELSE {[categoryId |-> row.category_id,
            confidence |-> similarity(row.merchant_key, merchantKey)] :
             row \in findTrigramMatch(mappings, userId, merchantKey)}

autoAppliesAbove(confidence) ==
  ConfAtLeast(confidence, AUTO_APPLY_THRESHOLD) /\ confidence # AUTO_APPLY_THRESHOLD

\* the confidence policy: confidence >= 0.75
autoApplies(confidence) == ConfAtLeast(confidence, AUTO_APPLY_THRESHOLD)

\* the top 3 ranked suggestions
topSuggestions(ranked) == SubSeq(ranked, 1, Min(Len(ranked), MAX_SUGGESTIONS))

\* the outcome of a provider response that won the race
policyOutcome(ranked, latencyMs) ==
  LET top == ranked[1]
  IN IF autoApplies(top.confidence)
     THEN CategorizationOutcome("AutoApplied", top.categoryId, top.confidence,
                                topSuggestions(ranked), FALSE, latencyMs)
     ELSE CategorizationOutcome("Suggested", NULL, top.confidence,
                                topSuggestions(ranked), FALSE, latencyMs)

timedOutOutcome(latencyMs) ==
  CategorizationOutcome("TimedOut", NULL, NoConfidence, <<>>, TRUE, latencyMs)

acceptsLate(pc) == pc # "idle"

\* the race is open: the call has neither an answer nor a timeout yet
raceOpen(pc) == pc = "waiting"

\* categorize(draft): a mapping match ends the call, else the provider is invoked
Categorize ==
  /\ cat.pc = "idle"
  /\ \E name \in RawNames :
       LET matches == resolveMerchantMapping("u1", name)
       IN IF matches # {}
          THEN \E match \in matches :
                 cat' = [cat EXCEPT
                           !.pc = "done", !.name = name,
                           !.outcome = CategorizationOutcome(
                                         "Mapped", match.categoryId, match.confidence,
                                         <<>>, FALSE, 0)]
          ELSE cat' = [cat EXCEPT !.pc = "waiting", !.name = name,
                                  !.provider = "pending", !.elapsed = 0]
  /\ UNCHANGED <<expenses, listVars, mapVars, lifeVars, auxVars>>

\* time passes; the deadline timer fires before time passes the deadline
CatTick ==
  /\ cat.provider # "none"
  /\ ~(raceOpen(cat.pc) /\ cat.elapsed >= PROVIDER_DEADLINE_MS)
  /\ \E t \in CatTimes :
       /\ t > cat.elapsed
       /\ \A other \in CatTimes : other > cat.elapsed => other >= t
       /\ cat' = [cat EXCEPT !.elapsed = t]
  /\ UNCHANGED <<expenses, listVars, mapVars, lifeVars, auxVars>>

\* the provider answers with a ranked list; a late answer is discarded
ProviderResponds ==
  /\ cat.provider = "pending"
  /\ \E ranked \in ProviderResponses :
       IF raceOpen(cat.pc)
       THEN cat' = [cat EXCEPT
                      !.pc = "done", !.provider = "responded",
                      !.respondedAt = cat.elapsed, !.response = ranked,
                      !.outcome = policyOutcome(ranked, cat.elapsed),
                      !.log = AiLog(ranked[1].confidence, cat.elapsed, FALSE, "none")]
       ELSE cat' = [cat EXCEPT !.provider = "responded",
                               !.respondedAt = cat.elapsed, !.response = ranked]
  /\ UNCHANGED <<expenses, listVars, mapVars, lifeVars, auxVars>>

\* the provider fails: the caller sees a timeout, the log keeps the error code
ProviderFails ==
  /\ cat.provider = "pending"
  /\ IF raceOpen(cat.pc)
     THEN cat' = [cat EXCEPT
                    !.pc = "done", !.provider = "failed", !.respondedAt = cat.elapsed,
                    !.outcome = timedOutOutcome(cat.elapsed),
                    !.log = AiLog(NoConfidence, cat.elapsed, FALSE, "PROVIDER_ERROR")]
     ELSE cat' = [cat EXCEPT !.provider = "failed", !.respondedAt = cat.elapsed]
  /\ UNCHANGED <<expenses, listVars, mapVars, lifeVars, auxVars>>

\* the deadline timer fires at 400 ms and the provider call is abandoned
DeadlineFires ==
  /\ raceOpen(cat.pc)
  /\ cat.elapsed = PROVIDER_DEADLINE_MS
  /\ cat' = [cat EXCEPT
               !.pc = "done",
               !.outcome = timedOutOutcome(cat.elapsed),
               !.log = AiLog(NoConfidence, cat.elapsed, TRUE, "none")]
  /\ UNCHANGED <<expenses, listVars, mapVars, lifeVars, auxVars>>

\* the caller stops waiting; the call and its outcome go on as they were
CallerAborts ==
  /\ cat.provider # "none"
  /\ ~cat.aborted
  /\ cat' = [cat EXCEPT !.aborted = TRUE]
  /\ UNCHANGED <<expenses, listVars, mapVars, lifeVars, auxVars>>

LearnedMapping ==
  [id |-> 1, user_id |-> "u1", merchant_key |-> <<"a", "a", "b">>, category_id |-> "c1"]

CatInit ==
  /\ mappings \in {{}, {LearnedMapping}}
  /\ cat = IdleCategorize
  /\ req = <<>> /\ mapReply = <<>> /\ learned = {}
  /\ expenses = {} /\ IdleList /\ IdleLife /\ IdleAux

CatNext ==
  \/ Categorize
  \/ CatTick
  \/ ProviderResponds
  \/ ProviderFails
  \/ DeadlineFires
  \/ CallerAborts

CatSpec == CatInit /\ [][CatNext]_vars

\* the clock runs and a due timer fires
CatFairSpec == CatSpec /\ WF_vars(CatTick) /\ WF_vars(DeadlineFires)

(***************************************************************************)
(* Time for the dashboard.  An instant is <<day, tick>>: the UTC day        *)
(* counted from 2025-01-01 and the tick within that day.  A wall-clock      *)
(* reading has the same shape, read in some timezone.                       *)
(***************************************************************************)
TicksPerMs == 2

MS == TicksPerMs
SECOND == 1000 * MS
MINUTE == 60 * SECOND
HOUR == 60 * MINUTE
DAY == 24 * HOUR

Norm(day, tick) == <<day + (tick \div DAY), tick % DAY>>
AddTicks(t, d) == Norm(t[1], t[2] + d)
DiffTicks(a, b) == (a[1] - b[1]) * DAY + (a[2] - b[2])
Leq(a, b) == a[1] < b[1] \/ (a[1] = b[1] /\ a[2] <= b[2])

\* the calendar of 2025
DaysInMonth == <<31, 28, 31, 30, 31, 30, 31, 31, 30, 31, 30, 31>>

RECURSIVE DaysBefore(_)
DaysBefore(month) == IF month = 1 THEN 0 ELSE DaysBefore(month - 1) + DaysInMonth[month - 1]

YearMonth(year, month) == [year |-> year, month |-> month]
NoMonth == YearMonth(0, 0)

\* day number of the first and of the last day of a month of 2025
FirstDay(yearMonth) == DaysBefore(yearMonth.month)
LastDay(yearMonth) == DaysBefore(yearMonth.month) + DaysInMonth[yearMonth.month] - 1

\* the month a day of 2025 lies in
MonthOfDay(day) ==
  YearMonth(2025, CHOOSE month \in 1 .. 12 :
                    DaysBefore(month) <= day /\ day < DaysBefore(month) + DaysInMonth[month])

\* IANA timezones: UTC offset, in ticks, at an instant of early 2025
TimeZones == {"UTC", "Europe/Warsaw", "America/New_York"}

OffsetAt(zone, t) ==
  CASE zone = "UTC" -> 0
    [] zone = "Europe/Warsaw" ->
         IF Leq(<<DaysBefore(3) + 29, 1 * HOUR>>, t) THEN 2 * HOUR ELSE 1 * HOUR
    [] zone = "America/New_York" ->
         IF Leq(<<DaysBefore(3) + 8, 7 * HOUR>>, t) THEN 0 - 4 * HOUR ELSE 0 - 5 * HOUR

ZoneOffsets(zone) ==
  CASE zone = "UTC" -> <<0>>
    [] zone = "Europe/Warsaw" -> <<1 * HOUR, 2 * HOUR>>
    [] zone = "America/New_York" -> <<0 - 5 * HOUR, 0 - 4 * HOUR>>

\* the wall-clock reading of an instant in a zone
toWall(zone, t) == AddTicks(t, OffsetAt(zone, t))

\* the instant of a wall-clock reading in a zone (a reading skipped by a
\* clock change is read with the offset before the change)
fromWall(zone, wall) ==
  LET offsets == ZoneOffsets(zone)
      fits == {k \in 1 .. Len(offsets) : toWall(zone, AddTicks(wall, 0 - offsets[k])) = wall}
  IN IF fits = {} THEN AddTicks(wall, 0 - offsets[1])
     ELSE AddTicks(wall, 0 - offsets[CHOOSE k \in fits : \A j \in fits : k <= j])

\* date-fns set(date, {year, month, date: 1}) in the server's zone
setFirstOfMonth(server, date, yearMonth) ==
  fromWall(server, <<FirstDay(yearMonth), toWall(server, date)[2]>>)

\* date-fns setHours(date, hours) in the server's zone
setHours(server, date, hours) ==
  LET wall == toWall(server, date)
  IN fromWall(server, <<wall[1], hours * HOUR + (wall[2] % HOUR)>>)

\* date-fns startOfMonth(date) and endOfMonth(date) in the server's zone
startOfMonth(server, date) ==
  fromWall(server, <<FirstDay(MonthOfDay(toWall(server, date)[1])), 0>>)

endOfMonth(server, date) ==
  fromWall(server, <<LastDay(MonthOfDay(toWall(server, date)[1])), DAY - MS>>)

\* Intl.DateTimeFormat(timeZone).formatToParts: the reading down to the second
formatToParts(timezone, date) ==
  LET wall == toWall(timezone, date)
  IN <<wall[1], wall[2] - (wall[2] % SECOND)>>

\* resolveTargetMonth: the month asked for, else the month of now in the zone
resolveTargetMonth(month, timezone, now) ==
  IF month # NoMonth THEN month ELSE MonthOfDay(formatToParts(timezone, now)[1])

\* getPreviousMonth: subMonths(date, 1)
getPreviousMonth(yearMonth) ==
  IF yearMonth.month = 1 THEN YearMonth(yearMonth.year - 1, 12)
  ELSE YearMonth(yearMonth.year, yearMonth.month - 1)

\* getMonthBoundaries: start and end of the month as UTC instants
getMonthBoundaries(yearMonth, timezone, server, now) ==
  LET monthDate == setFirstOfMonth(server, now, yearMonth)
      referenceDate == setHours(server, monthDate, 12)
      tzDate == fromWall(server, formatToParts(timezone, referenceDate))
      offset == DiffTicks(referenceDate, tzDate)
      localMonthStart == startOfMonth(server, monthDate)
      localMonthEnd == endOfMonth(server, monthDate)
  IN [start |-> AddTicks(localMonthStart, offset),
      end |-> AddTicks(localMonthEnd, offset)]

\* date-fns startOfDay, endOfDay, subDays, subMonths, in the server's zone
startOfDay(server, date) == fromWall(server, <<toWall(server, date)[1], 0>>)
endOfDay(server, date) == fromWall(server, <<toWall(server, date)[1], DAY - MS>>)
subDays(server, date, amount) ==
  LET wall == toWall(server, date) IN fromWall(server, <<wall[1] - amount, wall[2]>>)
subMonths(server, date) ==
  LET wall == toWall(server, date)
      month == MonthOfDay(wall[1])
      previous == getPreviousMonth(month)
      dayOfMonth == wall[1] - FirstDay(month)
  IN fromWall(server, <<FirstDay(previous)
                          + Min(dayOfMonth, DaysInMonth[previous.month] - 1), wall[2]>>)

(***************************************************************************)
(* The dashboard metrics over public.expenses.                             *)
(***************************************************************************)
MaxDashRows == 2

RECURSIVE SumAmounts(_)
SumAmounts(rows) ==
  IF rows = {} THEN 0
  ELSE LET row == CHOOSE r \in rows : TRUE IN row.amount + SumAmounts(rows \ {row})

\* the where clause shared by the four queries of get_dashboard_metrics
MetricsMatch(row, p_user_id, p_start_date, p_end_date, p_account, p_category_ids) ==
  /\ row.user_id = p_user_id
  /\ row.deleted_at = NoInstant
  /\ Leq(p_start_date, row.occurred_at)
  /\ Leq(row.occurred_at, p_end_date)
  /\ (p_account = NULL \/ row.account = p_account)
  /\ (p_category_ids = {} \/ row.category_id \in p_category_ids)

\* generate_series(date_trunc('day', start at UTC), date_trunc('day', end at UTC), 1 day)
date_series(p_start_date, p_end_date) ==
  [k \in 1 .. Max(0, p_end_date[1] - p_start_date[1] + 1) |-> p_start_date[1] + k - 1]

\* get_dashboard_metrics; p_category_ids null is the empty set
get_dashboard_metrics(store, p_user_id, p_start_date, p_end_date, p_prev_start_date, p_prev_end_date, p_account, p_category_ids) ==
  LET current == {row \in store :
                    MetricsMatch(row, p_user_id, p_start_date, p_end_date,
                                 p_account, p_category_ids)}
      previous == {row \in store :
                     MetricsMatch(row, p_user_id, p_prev_start_date, p_prev_end_date,
                                  p_account, p_category_ids)}
      series == date_series(p_start_date, p_end_date)
  IN [currentTotal |-> SumAmounts(current),
      previousTotal |-> SumAmounts(previous),
      daily |-> [k \in 1 .. Len(series) |->
                   [date |-> series[k],
                    total |-> SumAmounts({row \in current :
                                            row.occurred_at[1] = series[k]})]],
      topCategories |->
        {[categoryId |-> c,
          total |-> SumAmounts({row \in current : row.category_id = c})] :
           c \in {row.category_id : row \in current}}]

\* the percentage without the guard on an empty previous month
unguardedPercent(current, previous) == <<(current - previous) * 100, previous>>

\* calculateMoMPercent, the percentage as the fraction <<num, den>>
calculateMoMPercent(current, previous) ==
  IF previous = 0
  THEN (IF current > 0 THEN <<100, 1>> ELSE <<0, 1>>)
  ELSE <<(current - previous) * 100, previous>>

\* calculateCategoryPercentages
calculateCategoryPercentages(categories, total) ==
  {[categoryId |-> c.categoryId, total |-> c.total,
    percentage |-> IF total > 0 THEN <<c.total * 100, total>> ELSE <<0, 1>>] :
     c \in categories}

\* getDashboardData; options.account null or "all" means every account
getDashboardData(store, userId, options, profileTimezone, server, now) ==
  LET timezone == IF options.timezone # NULL THEN options.timezone ELSE profileTimezone
      targetMonth == resolveTargetMonth(options.month, timezone, now)
      previousMonth == getPreviousMonth(targetMonth)
      currentBoundaries == getMonthBoundaries(targetMonth, timezone, server, now)
      previousBoundaries == getMonthBoundaries(previousMonth, timezone, server, now)
      accountFilter == IF options.account = "all" THEN NULL ELSE options.account
      data == get_dashboard_metrics(store, userId, currentBoundaries.start,
                                    currentBoundaries.end, previousBoundaries.start,
                                    previousBoundaries.end, accountFilter,
                                    options.categoryIds)
  IN [month |-> targetMonth,
      timezone |-> timezone,
      total |-> data.currentTotal,
      monthOverMonth |->
        [absolute |-> data.currentTotal - data.previousTotal,
         percent |-> calculateMoMPercent(data.currentTotal, data.previousTotal)],
      daily |-> data.daily,
      topCategories |-> calculateCategoryPercentages(data.topCategories,
                                                     data.currentTotal),
      currentBoundaries |-> currentBoundaries,
      previousBoundaries |-> previousBoundaries,
      previousTotal |-> data.previousTotal]

DashRow(id, userId, amount, occurredAt, account, categoryId, deletedAt) ==
  [id |-> id, user_id |-> userId, amount |-> amount, occurred_at |-> occurredAt,
   account |-> account, category_id |-> categoryId, deleted_at |-> deletedAt]

\* expenses around the month ends of February, March and April 2025
DashRows ==
  {DashRow(1, "u1", 100, <<FirstDay(YearMonth(2025, 3)), 0>>, "cash", "c1", NoInstant),
   DashRow(2, "u1", 210, <<FirstDay(YearMonth(2025, 4)), 3 * HOUR + 30 * MINUTE>>,
           "card", "c2", NoInstant),
   DashRow(3, "u1", 320, <<FirstDay(YearMonth(2025, 4)), 4 * HOUR + 30 * MINUTE>>,
           "cash", "c1", NoInstant),
   DashRow(4, "u1", 430, <<FirstDay(YearMonth(2025, 3)) + 14, 12 * HOUR>>,
           "card", "c1", NoInstant),
   DashRow(5, "u1", 540, <<LastDay(YearMonth(2025, 2)), 23 * HOUR + 30 * MINUTE>>,
           "cash", "c2", NoInstant),
   DashRow(6, "u1", 650, <<FirstDay(YearMonth(2025, 3)) + 14, 13 * HOUR>>,
           "cash", "c1", 1),
   DashRow(7, "u2", 760, <<FirstDay(YearMonth(2025, 3)) + 14, 14 * HOUR>>,
           "cash", "c1", NoInstant),
   DashRow(8, "u1", 870, <<FirstDay(YearMonth(2025, 2)) + 9, 12 * HOUR>>,
           "cash", "c1", NoInstant),
   DashRow(9, "u1", 980, <<LastDay(YearMonth(2025, 3)), 22 * HOUR + 30 * MINUTE>>,
           "card", "c2", NoInstant)}

\* the instants of the request: mid April, on a whole second and half a second later
NowChoices ==
  {<<FirstDay(YearMonth(2025, 4)) + 14, 9 * HOUR + 17 * MINUTE + 23 * SECOND>>,
   <<FirstDay(YearMonth(2025, 4)) + 14, 9 * HOUR + 17 * MINUTE + 23 * SECOND + 500 * MS>>}

DashMonths == {NoMonth, YearMonth(2025, 2), YearMonth(2025, 3), YearMonth(2025, 4)}

DashOptions ==
  [month : DashMonths, timezone : TimeZones \cup {NULL},
   account : {"all", "cash"}, categoryIds : {{}, {"c1"}}]

NoDash ==
  [pc |-> "idle", options |-> [month |-> NoMonth, timezone |-> NULL, account |-> "all",
                               categoryIds |-> {}],
   server |-> "UTC", now |-> <<0, 0>>]

\* an expense is stored
DashInsert ==
  /\ Cardinality(expenses) < MaxDashRows
  /\ \E row \in DashRows \ expenses : expenses' = expenses \cup {row}
  /\ UNCHANGED <<dash, api, probe, moreVars>>
  /\ UNCHANGED <<listVars, mapVars, lifeVars, cat>>

\* a dashboard request of user u1, whose profile says Europe/Warsaw
GetDashboard ==
  /\ \E options \in DashOptions, server \in {"UTC", "Europe/Warsaw"}, now \in NowChoices :
       dash' = [pc |-> "done", options |-> options, server |-> server, now |-> now]
  /\ UNCHANGED <<expenses, api, probe, moreVars>>
  /\ UNCHANGED <<listVars, mapVars, lifeVars, cat>>

\* the response of the request in `dash`
DashResponse ==
  getDashboardData(expenses, "u1", dash.options, "Europe/Warsaw", dash.server, dash.now)

DashInit ==
  /\ expenses = {}
  /\ dash = NoDash
  /\ api = <<>> /\ probe = <<>> /\ IdleMore
  /\ IdleList /\ IdleMap /\ IdleLife /\ IdleCat

DashNext == DashInsert \/ GetDashboard

DashSpec == DashInit /\ [][DashNext]_vars

(***************************************************************************)
(* GET /api/expenses: the query string, its validation and the list call.  *)
(***************************************************************************)
MAX_CATEGORY_IDS == 20
MAX_SEARCH_LENGTH == 200
DEFAULT_LIMIT == 50

NoTime == <<0 - 1, 0>>               \* no bound of a date range
NoRange == [from |-> NoTime, to |-> NoTime]

\* the instant the timestamptz value t stands for
Instant(t) == <<0, t>>

\* isoTimestampSchema: trimmed, not blank, ending with Z, parseable
isoTimestampSchema(text) ==
  LET value == Trim(text)
  IN IF Len(value) > 0 /\ value[Len(value)] = "Z" /\ DateParse(value) # NoInstant
     THEN [ok |-> TRUE, value |-> DateParse(value)]
     ELSE [ok |-> FALSE, value |-> NoInstant]

IsDigits(text) == Len(text) > 0 /\ \A k \in 1 .. Len(text) : text[k] \in Range(Digits)

RECURSIVE Decimal(_)
Decimal(text) ==
  IF text = <<>> THEN 0
  ELSE Decimal(SubSeq(text, 1, Len(text) - 1)) * 10
         + (CHOOSE n \in 0 .. 9 : DigitChar(n) = text[Len(text)])

\* Number(text): an integer, a number with a fraction, or NaN
NumberParse(text) ==
  LET parts == Split(text, ".")
  IN IF IsDigits(text) THEN [kind |-> "integer", value |-> Decimal(text)]
     ELSE IF Len(text) > 1 /\ Head(text) = "-" /\ IsDigits(Tail(text))
     THEN [kind |-> "integer", value |-> 0 - Decimal(Tail(text))]
     ELSE IF Len(parts) = 2 /\ IsDigits(parts[1]) /\ IsDigits(parts[2])
     THEN [kind |-> IF Decimal(parts[2]) = 0 THEN "integer" ELSE "fraction",
           value |-> Decimal(parts[1])]
     ELSE [kind |-> "NaN", value |-> 0]

\* limitSchema without its range check
limitSchemaUnbounded(text) ==
  [ok |-> NumberParse(Trim(text)).kind = "integer",
   value |-> NumberParse(Trim(text)).value]

\* limitSchema on a query-string value
limitSchema(text) ==
  LET value == Trim(text)
      parsed == NumberParse(value)
  IN IF value = <<>> THEN [ok |-> TRUE, value |-> DEFAULT_LIMIT]
     ELSE IF parsed.kind # "integer" THEN [ok |-> FALSE, value |-> 0]
     ELSE IF parsed.value < 1 \/ parsed.value > MAX_PAGE_LIMIT
     THEN [ok |-> FALSE, value |-> 0]
     ELSE [ok |-> TRUE, value |-> parsed.value]

\* the category uuids a request can name
CategoryUuids ==
  <<"c1", "c2", "c3", "c4", "c5", "c6", "c7", "c8", "c9", "c10", "c11", "c12", "c13",
    "c14", "c15", "c16", "c17", "c18", "c19", "c20", "c21">>

\* categoryIdsSchema on a comma-separated value whose items are uuids or junk
categoryIdsSchema(text) ==
  LET list == IF Trim(text) = <<>> THEN <<>> ELSE Split(Trim(text), ",")
      normalized == {Trim(list[k]) : k \in 1 .. Len(list)} \ {<<>>}
  IN IF \E item \in normalized : Len(item) # 1 \/ item[1] \notin Range(CategoryUuids)
     THEN [ok |-> FALSE, value |-> {}]
     ELSE IF Cardinality(normalized) > MAX_CATEGORY_IDS THEN [ok |-> FALSE, value |-> {}]
     ELSE [ok |-> TRUE, value |-> {item[1] : item \in normalized}]

\* booleanStringSchema
booleanStringSchema(value) ==
  IF value = "true" THEN [ok |-> TRUE, value |-> TRUE]
  ELSE IF value \in {"false", ""} THEN [ok |-> TRUE, value |-> FALSE]
  ELSE [ok |-> FALSE, value |-> FALSE]

\* searchSchema: trimmed, at most 200 characters, blank is no search
searchSchema(text) ==
  LET value == Trim(text)
  IN [ok |-> Len(value) <= MAX_SEARCH_LENGTH,
      value |-> IF value = <<>> THEN NullText ELSE value]

NoFilters ==
  [timeRange |-> NULL, from |-> NoInstant, to |-> NoInstant, categoryIds |-> {},
   account |-> NULL, search |-> NullText, includeDeleted |-> FALSE, limit |-> DEFAULT_LIMIT]

\* filtersSchema and normalizeExpenseFilters: ok is FALSE where they throw
normalizeExpenseFilters(params) ==
  LET from == IF params.from = NullText THEN [ok |-> TRUE, value |-> NoInstant]
              ELSE isoTimestampSchema(params.from)
      to == IF params.to = NullText THEN [ok |-> TRUE, value |-> NoInstant]
            ELSE isoTimestampSchema(params.to)
      categoryIds == IF params.categoryIds = NullText THEN [ok |-> TRUE, value |-> {}]
                     ELSE categoryIdsSchema(params.categoryIds)
      search == IF params.search = NullText THEN [ok |-> TRUE, value |-> NullText]
                ELSE searchSchema(params.search)
      includeDeleted == IF params.includeDeleted = NULL THEN [ok |-> TRUE, value |-> FALSE]
                        ELSE booleanStringSchema(params.includeDeleted)
      limit == IF params.limit = NullText THEN [ok |-> TRUE, value |-> DEFAULT_LIMIT]
               ELSE limitSchema(params.limit)
      fields == /\ params.timeRange \in {NULL, "this_month", "last_7_days", "last_month"}
                /\ from.ok /\ to.ok /\ categoryIds.ok
                /\ params.account \in {NULL, "cash", "card"}
                /\ search.ok /\ includeDeleted.ok /\ limit.ok
                /\ (params.cursor # NullText => cursorStringValid(params.cursor))
      together == /\ (from.value # NoInstant <=> to.value # NoInstant)
                  /\ ~(from.value # NoInstant /\ to.value # NoInstant
                         /\ from.value > to.value)
                  /\ ~(params.timeRange # NULL /\ from.value # NoInstant
                         /\ to.value # NoInstant)
  IN IF fields /\ together
     THEN [ok |-> TRUE,
           filters |-> [timeRange |-> params.timeRange, from |-> from.value,
                        to |-> to.value, categoryIds |-> categoryIds.value,
                        account |-> params.account, search |-> search.value,
                        includeDeleted |-> includeDeleted.value, limit |-> limit.value],
           cursor |-> IF params.cursor = NullText THEN NoCursor
                      ELSE decodeExpenseCursor(params.cursor)]
     ELSE [ok |-> FALSE, filters |-> NoFilters, cursor |-> NoCursor]

\* resolveReferenceDate: the user's wall clock read as if it were UTC
resolveReferenceDate(timezone, now) ==
  IF timezone = NULL THEN now ELSE formatToParts(timezone, now)

\* resolveDateRange
resolveDateRange(filters, timezone, server, now) ==
  LET referenceDate == resolveReferenceDate(timezone, now)
      rangeEnd == endOfDay(server, referenceDate)
      startCurrentMonth == startOfMonth(server, referenceDate)
  IN IF filters.from # NoInstant /\ filters.to # NoInstant
     THEN [from |-> Instant(filters.from), to |-> Instant(filters.to)]
     ELSE CASE filters.timeRange = NULL -> NoRange
            [] filters.timeRange = "this_month" ->
                 [from |-> startOfMonth(server, referenceDate),
                  to |-> endOfMonth(server, referenceDate)]
            [] filters.timeRange = "last_7_days" ->
                 [from |-> startOfDay(server, subDays(server, rangeEnd, 6)),
                  to |-> rangeEnd]
            [] filters.timeRange = "last_month" ->
                 [from |-> startOfMonth(server, subMonths(server, startCurrentMonth)),
                  to |-> endOfMonth(server, subMonths(server, startCurrentMonth))]

\* gte / lte on occurred_at
InDateRange(row, dateRange) ==
  /\ (dateRange.from # NoTime => Leq(dateRange.from, Instant(row.occurred_at)))
  /\ (dateRange.to # NoTime => Leq(Instant(row.occurred_at), dateRange.to))

\* a text holds another one as a contiguous part: ilike '%term%'
Contains(text, term) ==
  \E k \in 0 .. Len(text) - Len(term) : SubSeq(text, k + 1, k + Len(term)) = term

\* textSearch, type plain: the term is one of the words of search_text
textSearch(row, term) == \E k \in 1 .. Len(Split(row.search_text, " ")) :
                           Split(row.search_text, " ")[k] = term

ilike(row, term) == Contains(row.search_text, term)

\* the rows a query of getExpenses selects; mode is how search_text is matched
selectExpenses(store, userId, filters, dateRange, cursor, mode) ==
  createExpensesQuery({row \in store :
                         /\ InDateRange(row, dateRange)
                         /\ (mode = "textSearch" => textSearch(row, filters.search))
                         /\ (mode = "ilike" => ilike(row, filters.search))},
                      userId, [filters EXCEPT !.from = NoInstant, !.to = NoInstant],
                      cursor)

\* a call made to the store, with what it answered
StoreCall(table, userId, mode, filters, dateRange, cursor, outcome) ==
  [table |-> table, userId |-> userId, mode |-> mode, filters |-> filters,
   dateRange |-> dateRange, cursor |-> cursor, outcome |-> outcome]

\* no error is taken for a missing search mechanism
neverUnavailable(error) == FALSE

\* isTrigramUnavailable
isTrigramUnavailable(error) == error \in {"42704 similarity", "pg_trgm"}

StoreErrors == {"42704 similarity", "pg_trgm", "connection"}

HttpResponse(status, code, body) == [status |-> status, code |-> code, body |-> body]

\* a failed store call answered with an empty page
emptyPageResponse(call) == HttpResponse(200, "OK", NoResp)

\* the error getExpenses throws for a failed store call, as GET reports it
failureResponse(call) ==
  HttpResponse(500, IF call.table = "profiles" THEN "TIMEZONE_LOOKUP_FAILED"
                    ELSE "EXPENSES_QUERY_FAILED", NoResp)

\* the page getExpenses builds from the rows of the query that answered
pageOf(data, limit) ==
  LET kept == SubSeq(data, 1, Min(Len(data), limit))
  IN [items |-> [i \in 1 .. Len(kept) |-> toExpenseDTO(kept[i])],
      nextCursor |-> computeNextCursor(data, limit),
      hasMore |-> Len(data) > limit]

\* getExpenses once the filters are read and the date range is resolved:
\* the first query, the fallback when the search is unavailable, the page
queryExpenses(store, filters, cursor, dateRange, lookup, first, second) ==
  LET mode == IF filters.search # NullText THEN "textSearch" ELSE "none"
      query == StoreCall("expenses", "u1", mode, filters, dateRange, cursor, first)
      retried == filters.search # NullText /\ first # "ok" /\ isTrigramUnavailable(first)
      fallback == StoreCall("expenses", "u1", "ilike", filters, dateRange, cursor, second)
      calls == IF retried THEN <<lookup, query, fallback>> ELSE <<lookup, query>>
      answered == calls[Len(calls)]
  IN IF answered.outcome # "ok"
     THEN [calls |-> calls, response |-> failureResponse(answered)]
     ELSE CHOOSE handled \in
            {[calls |-> calls, response |-> HttpResponse(200, "OK", pageOf(data, filters.limit))] :
               data \in {selectExpenses(store, "u1", filters, dateRange, cursor,
                                        answered.mode)}} : TRUE

\* getExpenses: the timezone lookup, then the queries
getExpensesCalls(store, normalized, profile, timezone, server, now, first, second) ==
  LET lookup == StoreCall("profiles", "u1", "none", NoFilters, NoRange, NoCursor, profile)
  IN IF profile # "ok"
     THEN [calls |-> <<lookup>>, response |-> failureResponse(lookup)]
     ELSE CHOOSE handled \in
            {queryExpenses(store, normalized.filters, normalized.cursor, dateRange,
                           lookup, first, second) :
               dateRange \in {resolveDateRange(normalized.filters, timezone,
                                               server, now)}} : TRUE

\* GET: validation, then getExpenses with the answers the store gives
\* (profile: the timezone lookup, first and second: the two queries)
handleGet(store, params, profile, timezone, server, now, first, second) ==
  CHOOSE handled \in
    {IF ~normalized.ok
     THEN [calls |-> <<>>, response |-> HttpResponse(400, "INVALID_QUERY", NoResp)]
     ELSE getExpensesCalls(store, normalized, profile, timezone, server, now,
                           first, second) :
       normalized \in {normalizeExpenseFilters(params)}} : TRUE

ApiRow(id, t, userId, account, categoryId, deletedAt, searchText) ==
  [id |-> id, occurred_at |-> t, user_id |-> userId, account |-> account,
   category_id |-> categoryId, deleted_at |-> deletedAt, search_text |-> searchText]

ApiRows ==
  {ApiRow(1, 1, "u1", "cash", "c1", NoInstant, <<"a", "b">>),
   ApiRow(2, 2, "u1", "card", "c2", NoInstant, <<"b", " ", "a">>),
   ApiRow(3, 2, "u1", "cash", "c1", 1, <<"a">>),
   ApiRow(4, 2, "u2", "cash", "c1", NoInstant, <<"a">>)}

\* n category uuids joined by commas
RECURSIVE JoinIds(_)
JoinIds(n) == IF n = 1 THEN <<CategoryUuids[1]>> ELSE JoinIds(n - 1) \o <<",", CategoryUuids[n]>>

NoParams ==
  [timeRange |-> NULL, from |-> NullText, to |-> NullText, categoryIds |-> NullText,
   account |-> NULL, search |-> NullText, includeDeleted |-> NULL, cursor |-> NullText,
   limit |-> NullText]

\* query strings: well-formed ones and each way of being malformed
ParamChoices ==
  LET filtersOnly ==
        {NoParams}
          \cup {[NoParams EXCEPT !.timeRange = r] :
                  r \in {"this_month", "last_7_days", "last_month", "yesterday"}}
          \cup {[NoParams EXCEPT !.from = IsoString(f), !.to = IsoString(t)] :
                  f \in {1, 2}, t \in {1, 2}}
          \cup {[NoParams EXCEPT !.from = IsoString(1)],
                [NoParams EXCEPT !.to = IsoString(2)],
                [NoParams EXCEPT !.from = <<"T", "1">>, !.to = IsoString(2)],
                [NoParams EXCEPT !.timeRange = "this_month", !.from = IsoString(1),
                                 !.to = IsoString(2)],
                [NoParams EXCEPT !.timeRange = "last_month", !.from = IsoString(1)]}
          \cup {[NoParams EXCEPT !.categoryIds = ids] :
                  ids \in {JoinIds(1), JoinIds(MAX_CATEGORY_IDS),
                           JoinIds(MAX_CATEGORY_IDS + 1),
                           JoinIds(MAX_CATEGORY_IDS) \o <<",", "c1">>,
                           <<"c1", ",", "junk">>, <<>>}}
          \cup {[NoParams EXCEPT !.account = a] : a \in {"cash", "bank"}}
          \cup {[NoParams EXCEPT !.includeDeleted = d] : d \in {"true", "false", "maybe"}}
          \cup {[NoParams EXCEPT !.limit = n] :
                  n \in {<<>>, <<"0">>, <<"1">>, <<"5", "0">>, <<"5", "1">>, <<"-", "1">>,
                         <<"1", ".", "5">>, <<"x">>}}
          \cup {[NoParams EXCEPT !.limit = <<"1">>, !.cursor = c] :
                  c \in {encodeExpenseCursor([occurredAt |-> IsoString(2),
                                              id |-> UuidString(2)]),
                         <<>>, <<" ">>, IsoString(2), <<"|">>,
                         IsoString(2) \o <<"|">>, <<"|">> \o UuidString(2),
                         <<"T", "2", "|">> \o UuidString(2),
                         IsoString(2) \o <<"|", "u">>,
                         IsoString(2) \o <<"|">> \o UuidString(2) \o <<"|">>}}
  IN filtersOnly \cup {[p EXCEPT !.search = term] :
                         p \in filtersOnly, term \in {<<"a">>, <<" ">>}}

\* store is the table as the request found it
NoApi == [pc |-> "idle", params |-> NoParams, store |-> {}, calls |-> <<>>,
          response |-> HttpResponse(0, "none", NoResp)]

\* an expense is stored
ApiInsert ==
  /\ Cardinality(expenses) < MaxExpenses
  /\ \E row \in ApiRows \ expenses : expenses' = expenses \cup {row}
  /\ UNCHANGED <<dash, api, probe, moreVars>>
  /\ UNCHANGED <<listVars, mapVars, lifeVars, cat>>

\* GET /api/expenses of the signed-in user u1
GetExpensesRequest ==
  /\ api.pc = "idle"
  /\ \E params \in ParamChoices, profile \in {"ok", "connection"},
        timezone \in {NULL, "Europe/Warsaw"}, server \in {"UTC", "Europe/Warsaw"},
        now \in NowChoices, first \in {"ok"} \cup StoreErrors,
        second \in {"ok"} \cup StoreErrors :
       LET handled == handleGet(expenses, params, profile, timezone, server, now,
                                first, second)
       IN api' = [pc |-> "done", params |-> params, store |-> expenses,
                  calls |-> handled.calls,
                  response |-> handled.response]
  /\ UNCHANGED <<expenses, dash, probe, moreVars>>
  /\ UNCHANGED <<listVars, mapVars, lifeVars, cat>>

ApiInit ==
  /\ expenses = {}
  /\ api = NoApi
  /\ dash = <<>> /\ probe = <<>> /\ IdleMore
  /\ IdleList /\ IdleMap /\ IdleLife /\ IdleCat

ApiNext == ApiInsert \/ GetExpensesRequest

ApiSpec == ApiInit /\ [][ApiNext]_vars

(***************************************************************************)
(* Reading the ledger while expenses are created, updated, deleted and     *)
(* restored.                                                               *)
(***************************************************************************)
\* the query strings of the reads: includeDeleted omitted, false and true
ReadParams ==
  {NoParams, [NoParams EXCEPT !.includeDeleted = "false"],
   [NoParams EXCEPT !.includeDeleted = "true"]}

\* GET /api/expenses of user u1, the store answering
ListExpenses ==
  /\ \E params \in ReadParams :
       LET handled == handleGet(expenses, params, "ok", NULL, "UTC",
                                CHOOSE now \in NowChoices : TRUE, "ok", "ok")
       IN /\ listFilters' = normalizeExpenseFilters(params).filters
          /\ listResp' = handled.response.body
  /\ UNCHANGED <<expenses, listCursor, listPages, listSnapshot, listInserted>>
  /\ UNCHANGED <<mapVars, lifeVars, cat, auxVars>>

\* getExpenseById of user u1
GetExpenseById ==
  /\ \E expenseId \in OwnExpenseIds \cup {2} :
       LET data == selectExpense(expenseId, "u1", FALSE)
       IN lifeReply' =
            IF data = {}
            THEN LifeReply("get", expenseId, "EXPENSE_NOT_FOUND", NoInstant)
            ELSE [LifeReply("get", expenseId, "ok", NoInstant)
                    EXCEPT !.expense = toExpenseDTO(CHOOSE row \in data : TRUE)]
  /\ UNCHANGED <<expenses, clock, ereq>>
  /\ UNCHANGED <<listVars, mapVars, cat, auxVars>>

LedgerNext == LifeNext \/ ListExpenses \/ GetExpenseById

LedgerSpec == LifeInit /\ [][LedgerNext]_vars

(***************************************************************************)
(* The cursor codec on its own.                                            *)
(***************************************************************************)
TimeSegments ==
  {IsoString(1), IsoString(9), <<>>, <<" ">>, <<"T", "1">>,
   <<" ">> \o IsoString(1), IsoString(1) \o <<" ">>}

IdSegments ==
  {UuidString(1), UuidString(0), <<>>, <<" ">>, <<"u">>, <<" ">> \o UuidString(1)}

\* strings with no, one and two delimiters, bare and padded
CursorStrings ==
  LET bare == TimeSegments
                \cup {a \o <<"|">> \o b : a \in TimeSegments, b \in IdSegments}
                \cup {a \o <<"|">> \o b \o <<"|">> \o c :
                        a \in {IsoString(1), <<>>}, b \in IdSegments,
                        c \in {UuidString(1), <<>>}}
  IN bare \cup {<<" ">> \o text \o <<" ">> : text \in bare}

NoProbe == [op |-> "none", input |-> <<>>, occurredAt |-> <<>>, id |-> <<>>,
            result |-> NoCursor]

\* decodeExpenseCursor on a string from outside
DecodeCursor ==
  /\ \E input \in CursorStrings :
       probe' = [op |-> "decode", input |-> input, occurredAt |-> <<>>, id |-> <<>>,
                 result |-> decodeExpenseCursor(input)]
  /\ UNCHANGED <<expenses, dash, api, moreVars>>
  /\ UNCHANGED <<listVars, mapVars, lifeVars, cat>>

\* decodeExpenseCursor(encodeExpenseCursor(...)) on a row's timestamp and id
RoundTripCursor ==
  /\ \E t \in AllInstants, i \in AllIds :
       LET cursor == [occurredAt |-> IsoString(t), id |-> UuidString(i)]
           token == encodeExpenseCursor(cursor)
       IN probe' = [op |-> "roundtrip", input |-> token,
                    occurredAt |-> cursor.occurredAt, id |-> cursor.id,
                    result |-> decodeExpenseCursor(token)]
  /\ UNCHANGED <<expenses, dash, api, moreVars>>
  /\ UNCHANGED <<listVars, mapVars, lifeVars, cat>>

CursorInit ==
  /\ probe = NoProbe
  /\ expenses = {} /\ dash = <<>> /\ api = <<>> /\ IdleMore
  /\ IdleList /\ IdleMap /\ IdleLife /\ IdleCat

CursorNext == DecodeCursor \/ RoundTripCursor

CursorSpec == CursorInit /\ [][CursorNext]_vars

(***************************************************************************)
(* Creating an expense: the account it is stored with, and the profile.    *)
(***************************************************************************)
\* how many expenses the create calls of a behaviour insert
MaxCreated == 2

\* the category public.uncategorized_uuid() names, and one that does not exist
uncategorized_uuid == "c0"
MissingCategory == "c9"
CategoryTable == Categories \cup {uncategorized_uuid}

\* what the store may fail at during a call
CreateFaults == {"none", "profiles.select", "categories.select", "rpc",
                 "expenses.insert", "profiles.update"}

\* CreateExpenseCommand: account is optional; the rest as validated
CreateInputs ==
  [account : {NULL} \cup Accounts, categoryId : {"c1", MissingCategory}]

\* the profile tables of the model: a user has no row, or one with any
\* last_account
ProfileTables ==
  {{row \in {u1, u2} : row.id # NULL} :
     u1 \in [id : {"u1", NULL}, last_account : {NULL} \cup Accounts],
     u2 \in [id : {"u2"}, last_account : {"card"}]}

\* what a call gives back, and what it left in the two tables
CreateResult(code, store, profs, expense, profileAccountUpdated, updates) ==
  [code |-> code, expenses |-> store, profiles |-> profs, expense |-> expense,
   profileAccountUpdated |-> profileAccountUpdated, profileUpdates |-> updates]

\* fetchProfile: select id, last_account where id = userId, maybeSingle
fetchProfile(profs, userId, fault) ==
  IF fault = "profiles.select" THEN [code |-> "PROFILE_LOOKUP_FAILED", data |-> {}]
  ELSE IF {row \in profs : row.id = userId} = {}
  THEN [code |-> "PROFILE_NOT_FOUND", data |-> {}]
  ELSE [code |-> "ok", data |-> {row \in profs : row.id = userId}]

\* the profile's account whatever the input says
profileAccountFirst(input, profile) ==
  IF profile.last_account # NULL
  THEN [code |-> "ok", account |-> profile.last_account]
  ELSE IF input.account # NULL
  THEN [code |-> "ok", account |-> input.account]
  ELSE [code |-> "ACCOUNT_REQUIRED", account |-> NULL]

\* resolveAccount: the input's account, else the profile's, else an error
resolveAccount(input, profile) ==
  IF input.account # NULL
  THEN [code |-> "ok", account |-> input.account]
  ELSE IF profile.last_account # NULL
  THEN [code |-> "ok", account |-> profile.last_account]
  ELSE [code |-> "ACCOUNT_REQUIRED", account |-> NULL]

\* ensureCategoryExists of createExpense.ts: the category is in the table, or
\* it is the uncategorized one
ensureCategoryExists(categoryId, fault) ==
  IF fault = "categories.select" THEN "CATEGORY_LOOKUP_FAILED"
  ELSE IF categoryId \in CategoryTable THEN "ok"
  ELSE IF fault = "rpc" THEN "CATEGORY_LOOKUP_FAILED"
  ELSE IF categoryId # uncategorized_uuid THEN "CATEGORY_NOT_FOUND"
  ELSE "ok"

\* insertExpense: insert({...payload, user_id}).select().single()
insertExpense(store, userId, payload, id, fault) ==
  IF fault = "expenses.insert"
  THEN [code |-> "EXPENSE_INSERT_FAILED", expenses |-> store, data |-> {}]
  ELSE LET row == [id |-> id, occurred_at |-> payload.occurred_at,
                   user_id |-> userId, account |-> payload.account,
                   category_id |-> payload.category_id, deleted_at |-> NoInstant]
       IN [code |-> "ok", expenses |-> store \cup {row}, data |-> {row}]

\* updateProfileAccount: update({last_account}).eq(id, userId); false on error
updateProfileAccount(profs, userId, account, fault) ==
  IF fault = "profiles.update"
  THEN [ok |-> FALSE, profiles |-> profs]
  ELSE [ok |-> TRUE,
        profiles |-> {IF row.id = userId
                      THEN [row EXCEPT !.last_account = account]
                      ELSE row : row \in profs}]

\* the account was left out of the input
accountOmitted(input, profile, account) == input.account = NULL

\* shouldUpdateProfileAccount: !input.account && profile.last_account !== account
shouldUpdateProfileAccount(input, profile, account) ==
  input.account = NULL /\ profile.last_account # account

\* createExpense from its insert on
createExpenseInsert(store, profs, userId, input, profile, account, id, fault) ==
  LET inserted == insertExpense(store, userId,
                                [occurred_at |-> 1, account |-> account,
                                 category_id |-> input.categoryId], id, fault)
  IN IF inserted.code # "ok"
     THEN CreateResult(inserted.code, store, profs, NoExpense, FALSE, 0)
     ELSE LET newExpense == CHOOSE row \in inserted.data : TRUE
          IN IF shouldUpdateProfileAccount(input, profile, account)
             THEN LET updated == updateProfileAccount(profs, userId, account, fault)
                  IN CreateResult("ok", inserted.expenses, updated.profiles,
                                  toExpenseDTO(newExpense), updated.ok, 1)
             ELSE CreateResult("ok", inserted.expenses, profs,
                               toExpenseDTO(newExpense), FALSE, 0)

\* createExpense: profile, account, category, insert, profile account
createExpense(store, profs, userId, input, id, fault) ==
  LET fetched == fetchProfile(profs, userId, fault)
  IN IF fetched.code # "ok"
     THEN CreateResult(fetched.code, store, profs, NoExpense, FALSE, 0)
     ELSE LET profile == CHOOSE row \in fetched.data : TRUE
              resolved == resolveAccount(input, profile)
              category == ensureCategoryExists(input.categoryId, fault)
          IN IF resolved.code # "ok"
             THEN CreateResult(resolved.code, store, profs, NoExpense, FALSE, 0)
             ELSE IF category # "ok"
             THEN CreateResult(category, store, profs, NoExpense, FALSE, 0)
             ELSE createExpenseInsert(store, profs, userId, input, profile,
                                      resolved.account, id, fault)

NoCreated ==
  [userId |-> NULL, input |-> [account |-> NULL, categoryId |-> NULL],
   fault |-> "none", before |-> [expenses |-> {}, profiles |-> {}],
   result |-> CreateResult("none", {}, {}, NoExpense, FALSE, 0)]

\* POST /expenses reaching the service: one call of createExpense
CreateExpenseCall ==
  /\ Cardinality(expenses) < MaxCreated
  /\ \E userId \in Users, input \in CreateInputs, fault \in CreateFaults :
       LET id == CHOOSE i \in 1 .. MaxCreated : \A row \in expenses : row.id # i
           result == createExpense(expenses, profiles, userId, input, id, fault)
       IN /\ expenses' = result.expenses
          /\ profiles' = result.profiles
          /\ created' = [userId |-> userId, input |-> input, fault |-> fault,
                         before |-> [expenses |-> expenses, profiles |-> profiles],
                         result |-> result]
  /\ UNCHANGED <<listVars, mapVars, lifeVars, cat, dash, api, probe, mlist, win>>

CreateInit ==
  /\ expenses = {}
  /\ profiles \in ProfileTables
  /\ created = NoCreated
  /\ mlist = <<>> /\ win = <<>>
  /\ dash = <<>> /\ api = <<>> /\ probe = <<>>
  /\ IdleList /\ IdleMap /\ IdleLife /\ IdleCat

CreateNext == CreateExpenseCall

CreateSpec == CreateInit /\ [][CreateNext]_vars

(***************************************************************************)
(* Listing merchant mappings page by page.                                 *)
(***************************************************************************)
\* the keys of the listed mappings, and the collation of their characters
ListedKeys == {<<"a">>, <<"a", "b">>, <<"b">>}
Collation == <<"a", "b">>
Rank(ch) == CHOOSE k \in 1 .. Len(Collation) : Collation[k] = ch

\* text a < text b, character by character
RECURSIVE TextLess(_, _)
TextLess(a, b) ==
  IF b = <<>> THEN FALSE
  ELSE IF a = <<>> THEN TRUE
  ELSE IF Head(a) # Head(b) THEN Rank(Head(a)) < Rank(Head(b))
  ELSE TextLess(Tail(a), Tail(b))

\* the caller's mappings of the model: keys and ids in any pairing, a key and
\* an id used once
MappingStores ==
  {rows \cup {OtherUsersMapping} :
     rows \in {S \in SUBSET [id : 1 .. 3, user_id : {"u1"}, merchant_key : ListedKeys,
                             category_id : {"c1"}] :
                 \A r, q \in S : r # q => (r.id # q.id /\ r.merchant_key # q.merchant_key)}}

toMerchantMappingDTO(row) ==
  [id |-> UuidString(row.id), merchantKey |-> row.merchant_key,
   categoryId |-> row.category_id]

\* `${merchantKey}|${id}`
encodeMerchantMappingCursor(merchantKey, id) == merchantKey \o <<"|">> \o id

\* parseMerchantMappingCursor: cut at the last "|"; both parts not empty
parseMerchantMappingCursor(cursor) ==
  IF \A k \in 1 .. Len(cursor) : cursor[k] # "|"
  THEN [ok |-> FALSE, merchantKey |-> NullText, id |-> NullText]
  ELSE LET lastPipeIndex == CHOOSE k \in 1 .. Len(cursor) :
                              cursor[k] = "|" /\ \A m \in k + 1 .. Len(cursor) : cursor[m] # "|"
           merchantKey == SubSeq(cursor, 1, lastPipeIndex - 1)
           id == SubSeq(cursor, lastPipeIndex + 1, Len(cursor))
       IN IF merchantKey = <<>> \/ id = <<>>
          THEN [ok |-> FALSE, merchantKey |-> NullText, id |-> NullText]
          ELSE [ok |-> TRUE, merchantKey |-> merchantKey, id |-> id]

\* order by merchant_key asc, id asc
MappingBefore(r, q) ==
  \/ TextLess(r.merchant_key, q.merchant_key)
  \/ r.merchant_key = q.merchant_key /\ r.id < q.id

RECURSIVE OrderAsc(_)
OrderAsc(S) ==
  IF S = {} THEN <<>>
  ELSE LET first == CHOOSE r \in S : \A q \in S \ {r} : MappingBefore(r, q)
       IN <<first>> \o OrderAsc(S \ {first})

\* merchant_key.gt.K,and(merchant_key.eq.K,id.gt.I)
afterCursor(row, parsedCursor) ==
  \/ TextLess(parsedCursor.merchantKey, row.merchant_key)
  \/ /\ row.merchant_key = parsedCursor.merchantKey
     /\ row.id > UuidParse(parsedCursor.id)

\* the rows the filters of a list call match
mappingMatches(row, userId, search) ==
  /\ row.user_id = userId
  /\ search # NullText => Contains(row.merchant_key, search)

\* the query of getMerchantMappings: filters, order, limit + 1
mappingsQuery(store, userId, search, limit, cursor) ==
  LET ordered == OrderAsc({row \in store :
                             /\ mappingMatches(row, userId, search)
                             /\ cursor # NullText
                                  => afterCursor(row, parseMerchantMappingCursor(cursor))})
  IN SubSeq(ordered, 1, Min(Len(ordered), limit + 1))

\* computeNextCursor of getMerchantMappings.ts
computeNextMappingCursor(rows, limit) ==
  IF Len(rows) <= limit
  THEN NullText
  ELSE encodeMerchantMappingCursor(rows[limit + 1].merchant_key,
                                   UuidString(rows[limit + 1].id))

getMerchantMappings(store, userId, search, limit, cursor) ==
  IF cursor # NullText /\ ~parseMerchantMappingCursor(cursor).ok
  THEN [code |-> "INVALID_CURSOR", items |-> <<>>, nextCursor |-> NullText,
        hasMore |-> FALSE]
  ELSE LET data == CHOOSE d \in {mappingsQuery(store, userId, search, limit, cursor)} : TRUE
           kept == SubSeq(data, 1, Min(Len(data), limit))
       IN [code |-> "ok",
           items |-> [i \in 1 .. Len(kept) |-> toMerchantMappingDTO(kept[i])],
           nextCursor |-> computeNextMappingCursor(data, limit),
           hasMore |-> Len(data) > limit]

NoMList ==
  [search |-> NullText, limit |-> 0, cursor |-> NullText,
   resp |-> [code |-> "none", items |-> <<>>, nextCursor |-> NullText, hasMore |-> FALSE],
   pages |-> <<>>]

\* GET /merchant-mappings without a cursor: the first page of a chain
MapListFirstPage ==
  /\ \E limit \in 1 .. MaxLimit, search \in {NullText, <<"a">>} :
       LET resp == getMerchantMappings(mappings, "u1", search, limit, NullText)
       IN mlist' = [search |-> search, limit |-> limit, cursor |-> NullText,
                    resp |-> resp, pages |-> <<resp.items>>]
  /\ UNCHANGED <<expenses, listVars, mapVars, lifeVars, cat, dash, api, probe,
                 profiles, created, win>>

\* GET /merchant-mappings?cursor=: the page the latest nextCursor leads to
MapListNextPage ==
  /\ mlist.resp.nextCursor # NullText
  /\ LET resp == getMerchantMappings(mappings, "u1", mlist.search, mlist.limit,
                                     mlist.resp.nextCursor)
     IN mlist' = [mlist EXCEPT !.cursor = mlist.resp.nextCursor, !.resp = resp,
                               !.pages = Append(mlist.pages, resp.items)]
  /\ UNCHANGED <<expenses, listVars, mapVars, lifeVars, cat, dash, api, probe,
                 profiles, created, win>>

MapListInit ==
  /\ mappings \in MappingStores
  /\ req = [slot \in ReqSlots |-> IdleReq]
  /\ mapReply = Reply("none", NullText, "none", NoMatch, NoMapping, FALSE)
  /\ learned = {}
  /\ mlist = NoMList
  /\ profiles = {} /\ created = <<>> /\ win = <<>>
  /\ dash = <<>> /\ api = <<>> /\ probe = <<>>
  /\ expenses = {} /\ IdleList /\ IdleLife /\ IdleCat

MapListNext == MapListFirstPage \/ MapListNextPage

MapListSpec == MapListInit /\ [][MapListNext]_vars

(***************************************************************************)
(* The month windows of the list and of the dashboard, side by side.       *)
(***************************************************************************)
\* the instants of the requests: days at the turn of a month and inside it,
\* early, mid and late in the day, on a whole second and half a second later
WindowDays == {FirstDay(YearMonth(2025, 3)) + 30, FirstDay(YearMonth(2025, 4)),
               FirstDay(YearMonth(2025, 4)) + 14, FirstDay(YearMonth(2025, 4)) + 29}
WindowTimes == {30 * MINUTE, 9 * HOUR + 17 * MINUTE + 23 * SECOND,
                23 * HOUR + 30 * MINUTE}
WindowNows ==
  {<<day, time + residue>> : day \in WindowDays, time \in WindowTimes,
                             residue \in {0, 500 * MS}}

\* the window a time_range preset of the list stands for
listWindow(timeRange, timezone, server, now) ==
  resolveDateRange([NoFilters EXCEPT !.timeRange = timeRange], timezone, server, now)

\* the windows the dashboard asks the store for when no month is given
dashboardWindows(timezone, server, now) ==
  LET targetMonth == resolveTargetMonth(NoMonth, timezone, now)
  IN [current |-> getMonthBoundaries(targetMonth, timezone, server, now),
      previous |-> getMonthBoundaries(getPreviousMonth(targetMonth), timezone,
                                      server, now)]

NoWin ==
  [pc |-> "idle", timezone |-> "UTC", server |-> "UTC", now |-> <<0, 0>>,
   this_month |-> NoRange, last_month |-> NoRange,
   current |-> NoRange, previous |-> NoRange]

\* GET /expenses?time_range= and GET /dashboard of one user at one instant
ResolveWindows ==
  /\ win.pc = "idle"
  /\ \E timezone \in TimeZones, server \in TimeZones, now \in WindowNows :
       LET windows == CHOOSE w \in {dashboardWindows(timezone, server, now)} : TRUE
       IN win' = [pc |-> "done", timezone |-> timezone, server |-> server, now |-> now,
                  this_month |-> listWindow("this_month", timezone, server, now),
                  last_month |-> listWindow("last_month", timezone, server, now),
                  current |-> [from |-> windows.current.start,
                               to |-> windows.current.end],
                  previous |-> [from |-> windows.previous.start,
                                to |-> windows.previous.end]]
  /\ UNCHANGED <<expenses, listVars, mapVars, lifeVars, cat, dash, api, probe,
                 profiles, created, mlist>>

WindowInit ==
  /\ win = NoWin
  /\ profiles = {} /\ created = <<>> /\ mlist = <<>>
  /\ dash = <<>> /\ api = <<>> /\ probe = <<>>
  /\ expenses = {} /\ IdleList /\ IdleMap /\ IdleLife /\ IdleCat

WindowNext == ResolveWindows

WindowSpec == WindowInit /\ [][WindowNext]_vars

(***************************************************************************)
(* Properties of the expense list.                                         *)
(***************************************************************************)
\* the chain has ended: the latest response says there is no further page
ChainDone == listPages # <<>> /\ ~listResp.hasMore

\* the sort key a returned item carries
DtoKey(item) == [occurred_at |-> DateParse(item.occurredAt), id |-> UuidParse(item.id)]

\* one list call that returns everything the filters match
Unpaginated(store, filters) ==
  getExpenses(store, "u1", [filters EXCEPT !.limit = MAX_PAGE_LIMIT], NoCursor)

\* C1: with no change to the stored expenses, the pages of a finished cursor
\* chain, concatenated, are exactly the rows of a single unpaginated call with
\* the same filters, in the same order.
C1_ChainEqualsUnpaginated ==
  (ChainDone /\ ~listInserted)
    => Concat(listPages) = PageIds(Unpaginated(expenses, listFilters))

\* C2: a non-null nextCursor encodes the (occurredAt, id) of the last item of
\* the page it was returned with.
C2_CursorIsLastReturnedRow ==
  (listPages # <<>> /\ listResp.nextCursor # NullText)
    => /\ Len(listResp.items) > 0
       /\ LET last == listResp.items[Len(listResp.items)]
          IN listResp.nextCursor
               = encodeExpenseCursor([occurredAt |-> last.occurredAt, id |-> last.id])

\* what C3 says of one response to a call made on `store`
PageIsExact(store, filters, cursor, resp) ==
  /\ Len(resp.items) <= filters.limit
  /\ resp.hasMore <=>
       /\ Len(resp.items) = filters.limit
       /\ \E row \in store :
            /\ QueryMatches(row, "u1", filters, cursor)
            /\ \A i \in 1 .. Len(resp.items) : RowBefore(DtoKey(resp.items[i]), row)

\* C3: a list call with limit n returns at most n items, and hasMore is true
\* iff a further matching row exists after the n-th returned row.
C3_AtMostLimitAndHasMore ==
  [][listPages' # listPages
       => PageIsExact(expenses', listFilters', listCursor', listResp')]_vars

C3_Witness ==
  /\ listPages # <<>>
  /\ listResp.hasMore
  /\ Len(listResp.items) = 2
  /\ listFilters.includeDeleted

\* C4: with inserts landing between the page fetches of a chain, no expense is
\* on two pages, every row of a later page sorts after the rows before it, and
\* no matching expense stored before the first fetch is left out.
C4_NoDuplicateNoSkipUnderInserts ==
  (ChainDone /\ listInserted)
    => LET ids == Concat(listPages)
       IN /\ \A i, j \in 1 .. Len(ids) : i # j => ids[i] # ids[j]
          /\ \A i, j \in 1 .. Len(ids) :
               i < j => \E r, q \in expenses :
                          r.id = ids[i] /\ q.id = ids[j] /\ RowBefore(r, q)
          /\ \A row \in expenses :
               (row.id \in listSnapshot /\ QueryMatches(row, "u1", listFilters, NoCursor))
                 => row.id \in Range(ids)

(***************************************************************************)
(* Properties of the merchant mappings.                                    *)
(***************************************************************************)
SameKey(a, b) == normalizeMerchantName(a) = normalizeMerchantName(b)

\* C5: in every reachable state, whatever upserts, updates and deletes have
\* run or are running, no two mappings share a user and a normalized key.
C5_OneMappingPerUserAndKey ==
  \A r, q \in mappings :
    (r.user_id = q.user_id /\ r.merchant_key = q.merchant_key) => r = q

\* two upserts of one new key both found no mapping, and one has written
C5_Witness ==
  /\ mapReply.op = "upsert" /\ mapReply.code = "ok" /\ mapReply.wasCreated
  /\ \E slot \in ReqSlots :
       /\ req[slot].op = "upsert" /\ req[slot].pc = "write" /\ req[slot].wasCreated
       /\ normalizeMerchantName(req[slot].name) = mapReply.row.merchant_key
       /\ req[slot].categoryId # mapReply.row.category_id

\* the step is the exact lookup of a resolve of `name` by request `slot`
ResolveLooksUp(slot, name) ==
  /\ ResolveExact(slot)
  /\ \/ req' = req /\ mapReply'.op = "resolve" /\ mapReply'.name = name
     \/ req'[slot].op = "resolve" /\ req'[slot].name = name

\* C6: while an upsert of (user, name, c) that succeeded is in force (its
\* mapping neither deleted nor given a category since), a resolve by that user
\* of any raw name with the same normalized key returns an exact match with
\* confidence 1.0 and category c.
C6_LearnedNameResolvesExact ==
  [][\A slot \in ReqSlots, name \in RawNames, e \in learned :
       (ResolveLooksUp(slot, name) /\ e.userId = "u1" /\ SameKey(e.name, name))
         => /\ req' = req
            /\ mapReply'.match.matchType = "exact"
            /\ mapReply'.match.confidence = <<1, 1>>
            /\ mapReply'.match.categoryId = e.categoryId]_vars

\* a raw name resolved exactly through a mapping learned from another raw name
C6_Witness ==
  /\ mapReply.op = "resolve" /\ mapReply.match.matchType = "exact"
  /\ \E e \in learned :
       /\ e.name # mapReply.name /\ SameKey(e.name, mapReply.name)
       /\ e.categoryId = mapReply.match.categoryId

\* the step ends a resolve with a fuzzy result
RepliesFuzzy(slot) ==
  ResolveTrigram(slot) /\ mapReply'.match.matchType = "trigram"

\* C7, as stated: a fuzzy result never has confidence below 0.8 and is never
\* returned while an exact mapping for the user's normalized key exists,
\* whatever upserts and deletes run beside the resolve.
C7_FuzzyNeverWhenExactExists ==
  [][\A slot \in ReqSlots :
       RepliesFuzzy(slot)
         => /\ ConfAtLeast(mapReply'.match.confidence, <<4, 5>>)
            /\ ~ \E row \in mappings' :
                   /\ row.user_id = "u1"
                   /\ row.merchant_key = normalizeMerchantName(mapReply'.name)]_vars

\* C7, amended: a fuzzy result never has confidence below 0.8, and a resolve
\* asks for a fuzzy result only after its own exact lookup found no mapping
\* for the user's normalized key; a mapping written after that lookup is not
\* seen by it.
C7_FuzzyOnlyAfterExactMiss ==
  [][\A slot \in ReqSlots :
       /\ RepliesFuzzy(slot) => ConfAtLeast(mapReply'.match.confidence, <<4, 5>>)
       /\ (req[slot].op # "resolve" /\ req'[slot].op = "resolve")
            => ~ \E row \in mappings :
                   /\ row.user_id = "u1"
                   /\ row.merchant_key = normalizeMerchantName(req'[slot].name)]_vars

\* a fuzzy result at exactly 0.8, from the mapping of a neighbouring key
C7_Witness ==
  /\ mapReply.op = "resolve" /\ mapReply.match.matchType = "trigram"
  /\ mapReply.match.confidence = <<4, 5>>
  /\ mapReply.match.merchantKey # normalizeMerchantName(mapReply.name)

(***************************************************************************)
(* Properties of the expense life cycle.                                   *)
(***************************************************************************)
\* the step clears the deleted_at of `row`
Clears(row) ==
  /\ deleted(row)
  /\ \E after \in expenses' : after.id = row.id /\ ~deleted(after)

\* the step is a restore check that reads `row` as deleted for longer than the window
ChecksTooLate(slot, row) ==
  /\ RestoreCheck(slot)
  /\ lifeReply'.op = "restore" /\ lifeReply'.expenseId = row.id
  /\ row.user_id = "u1" /\ deleted(row)
  /\ clock - row.deleted_at > 7 * 24 * 60 * 60 * 1000

\* C8: a deleted_at that is set becomes null only in the update of
\* restoreExpense, and only for an expense that restoreExpense found deleted
\* no more than 7 days before the time it read; a restore that finds the
\* window closed fails with RETENTION_WINDOW_EXPIRED and writes nothing.
C8_ClearedOnlyByRestoreInWindow ==
  [][/\ \A row \in expenses :
          Clears(row)
            => \E slot \in LifeSlots :
                 /\ RestoreWrite(slot)
                 /\ ereq[slot].expenseId = row.id
                 /\ ereq[slot].currentTime - row.deleted_at <= 7 * 24 * 60 * 60 * 1000
     /\ \A slot \in LifeSlots, row \in expenses :
          ChecksTooLate(slot, row)
            => /\ lifeReply'.code = "RETENTION_WINDOW_EXPIRED"
               /\ expenses' = expenses
               /\ ereq' = ereq]_vars

\* a restore exactly 7 days after the deletion has cleared deleted_at
C8_Witness ==
  /\ lifeReply.op = "restore" /\ lifeReply.code = "ok"
  /\ lifeReply.timeSinceDeletion = 7 * 24 * 60 * 60 * 1000
  /\ \E row \in expenses : row.id = lifeReply.expenseId /\ ~deleted(row)

(***************************************************************************)
(* Properties of the categorization.                                       *)
(***************************************************************************)
\* the provider was invoked and gave no answer within 400 ms
SilentAtDeadline ==
  /\ cat.provider # "none"
  /\ cat.elapsed > 400
  /\ cat.respondedAt = NoInstant \/ cat.respondedAt > 400

IsTimedOut(outcome) ==
  /\ outcome.kind = "TimedOut"
  /\ outcome.autoAppliedCategoryId = NULL
  /\ outcome.suggestions = <<>>
  /\ outcome.timedOut

\* C9: once 400 ms have passed without an answer of the provider the outcome
\* is TimedOut (no category, no suggestions, timedOut true), and no later
\* step, a late answer or a caller's abort included, changes a TimedOut
\* outcome.
C9_SilentProviderTimesOut ==
  /\ [](SilentAtDeadline => (cat.pc = "done" /\ IsTimedOut(cat.outcome)))
  /\ [][IsTimedOut(cat.outcome) => cat'.outcome = cat.outcome]_vars

\* the provider answered after the deadline and the caller aborted, and the
\* outcome is the timeout the timer produced
C9_Witness ==
  /\ cat.provider = "responded" /\ cat.respondedAt > 400
  /\ cat.aborted
  /\ IsTimedOut(cat.outcome) /\ cat.outcome.latencyMs = 400

\* the provider answered with a ranked list before the deadline
AnsweredInTime ==
  /\ cat.provider = "responded"
  /\ cat.respondedAt # NoInstant /\ cat.respondedAt < 400

IsPrefix(short, long) ==
  /\ Len(short) <= Len(long)
  /\ \A k \in 1 .. Len(short) : short[k] = long[k]

\* the outcome the confidence policy asks for, given the provider's answer
FollowsPolicy(outcome, ranked) ==
  /\ ConfAtLeast(ranked[1].confidence, <<75, 100>>)
       => /\ outcome.kind = "AutoApplied"
          /\ outcome.autoAppliedCategoryId = ranked[1].categoryId
  /\ ~ConfAtLeast(ranked[1].confidence, <<75, 100>>)
       => /\ outcome.kind = "Suggested"
          /\ outcome.autoAppliedCategoryId = NULL
  /\ Len(outcome.suggestions) <= 3
  /\ IsPrefix(outcome.suggestions, ranked)
  /\ ~outcome.timedOut

\* C10: with no mapping match and an answer before the deadline, a top
\* confidence of at least 0.75 gives AutoApplied with the top suggestion's
\* category and a lower one gives Suggested with no category; at most 3
\* ranked suggestions are returned; every call that started ends, and ends as
\* one of Mapped, AutoApplied, Suggested, TimedOut.
C10_PolicyAndFourOutcomes ==
  /\ [](AnsweredInTime => (cat.pc = "done" /\ FollowsPolicy(cat.outcome, cat.response)))
  /\ [](cat.pc = "done"
          => cat.outcome.kind \in {"Mapped", "AutoApplied", "Suggested", "TimedOut"})
  /\ [](cat.pc # "done" => cat.outcome.kind = "none")
  /\ (cat.pc = "waiting" ~> cat.pc = "done")

\* an answer of four suggestions topped at 0.9 was applied and cut to three
C10_Witness ==
  /\ AnsweredInTime /\ Len(cat.response) = 4
  /\ cat.outcome.kind = "AutoApplied" /\ Len(cat.outcome.suggestions) = 3
  /\ cat.outcome.autoAppliedCategoryId = "c3"

(***************************************************************************)
(* Properties of the dashboard.                                            *)
(***************************************************************************)
\* the calendar date of an instant in a zone
LocalDate(timezone, t) == toWall(timezone, t)[1]

\* the expenses the request asks about, whatever their date
DashMatches(row) ==
  /\ row.user_id = "u1"
  /\ row.deleted_at = NoInstant
  /\ (dash.options.account = "all" \/ row.account = dash.options.account)
  /\ (dash.options.categoryIds = {} \/ row.category_id \in dash.options.categoryIds)

\* one entry per calendar day of the month, each the sum of that local day
ExpectedDaily(yearMonth, timezone) ==
  [k \in 1 .. DaysInMonth[yearMonth.month] |->
     [date |-> FirstDay(yearMonth) + k - 1,
      total |-> SumAmounts({row \in expenses :
                              /\ DashMatches(row)
                              /\ LocalDate(timezone, row.occurred_at)
                                   = FirstDay(yearMonth) + k - 1})]]

\* C11: for every month and timezone the daily series is exactly the calendar
\* days of the target month in order, zero-spend days included, each with the
\* sum of the matching non-deleted amounts of that day.
C11_DailySeriesIsTheMonth ==
  dash.pc = "done"
    => DashResponse.daily = ExpectedDaily(DashResponse.month, DashResponse.timezone)

\* the instants a month begins and ends at in a zone
LocalMonthStart(yearMonth, timezone) == fromWall(timezone, <<FirstDay(yearMonth), 0>>)
LocalMonthEnd(yearMonth, timezone) == fromWall(timezone, <<LastDay(yearMonth), DAY - MS>>)

IsLocalMonth(boundaries, yearMonth, timezone) ==
  /\ boundaries.start = LocalMonthStart(yearMonth, timezone)
  /\ boundaries.end = LocalMonthEnd(yearMonth, timezone)

\* C12: the boundaries of the target month and of the month before it are
\* local 00:00 of the first day and the local end of the last day in the
\* user's timezone, whatever the server's timezone and whatever clock change
\* falls inside the month.
C12_BoundariesAreLocalMonth ==
  dash.pc = "done"
    => /\ IsLocalMonth(DashResponse.currentBoundaries, DashResponse.month,
                       DashResponse.timezone)
       /\ IsLocalMonth(DashResponse.previousBoundaries,
                       getPreviousMonth(DashResponse.month), DashResponse.timezone)

SameFraction(a, b) == a[1] * b[2] = b[1] * a[2] /\ (a[2] = 0 <=> b[2] = 0)

C15_DecodeAcceptsOnlyTimestampAndUuid ==
  (probe.op = "decode" /\ probe.result.ok)
    => LET segments == Split(Trim(probe.input), "|")
       IN /\ Len(segments) = 2
          /\ Len(Trim(segments[1])) > 0 /\ Len(Trim(segments[2])) > 0
          /\ DateParse(Trim(probe.result.occurredAt)) # NoInstant
          /\ UuidParse(probe.result.id) # NoId

\* C16: decoding the token encoded from a timestamp and a UUID gives back
\* exactly that timestamp and that UUID.
C16_RoundTrip ==
  probe.op = "roundtrip"
    => /\ probe.result.ok
       /\ probe.result.occurredAt = probe.occurredAt
       /\ probe.result.id = probe.id

\* a token of a stored row decoded to the row's keys
C16_Witness ==
  /\ probe.op = "roundtrip"
  /\ probe.result = [ok |-> TRUE, occurredAt |-> IsoString(2), id |-> UuidString(3)]

(***************************************************************************)
(* Properties of GET /api/expenses.                                        *)
(***************************************************************************)
\* the distinct items of a comma-separated value
ListedIds(text) ==
  IF text = NullText THEN {}
  ELSE {Trim(Split(text, ",")[k]) : k \in 1 .. Len(Split(text, ","))} \ {<<>>}

\* the ways the request of `api` is malformed
NamedRangeWithFromTo ==
  api.params.timeRange # NULL /\ (api.params.from # NullText \/ api.params.to # NullText)
FromWithoutTo == api.params.from # NullText /\ api.params.to = NullText
FromAfterTo ==
  /\ api.params.from # NullText /\ api.params.to # NullText
  /\ DateParse(api.params.from) # NoInstant /\ DateParse(api.params.to) # NoInstant
  /\ DateParse(api.params.from) > DateParse(api.params.to)
TooManyCategories == Cardinality(ListedIds(api.params.categoryIds)) > MAX_CATEGORY_IDS
LimitOutOfRange ==
  /\ api.params.limit # NullText
  /\ NumberParse(api.params.limit).kind = "integer"
  /\ (NumberParse(api.params.limit).value < 1
        \/ NumberParse(api.params.limit).value > MAX_PAGE_LIMIT)
CursorInvalid ==
  /\ api.params.cursor # NullText
  /\ LET segments == Split(api.params.cursor, "|")
     IN ~(/\ Len(segments) = 2
          /\ DateParse(segments[1]) # NoInstant
          /\ UuidParse(segments[2]) # NoId)

Malformed ==
  \/ NamedRangeWithFromTo \/ FromWithoutTo \/ FromAfterTo
  \/ TooManyCategories \/ LimitOutOfRange \/ CursorInvalid

LastCall == api.calls[Len(api.calls)]

\* the request ended on a store call that failed
EndedOnFailure == api.pc = "done" /\ api.calls # <<>> /\ LastCall.outcome # "ok"

\* the request's query answered, and no stored row matches it
AnsweredWithoutRows ==
  /\ api.pc = "done" /\ api.calls # <<>>
  /\ LastCall.table = "expenses" /\ LastCall.outcome = "ok"
  /\ ~ \E row \in api.store :
         /\ QueryMatches(row, "u1", [LastCall.filters EXCEPT !.from = NoInstant,
                                                             !.to = NoInstant],
                         LastCall.cursor)
         /\ InDateRange(row, LastCall.dateRange)
         /\ (LastCall.mode = "textSearch" => textSearch(row, LastCall.filters.search))
         /\ (LastCall.mode = "ilike" => ilike(row, LastCall.filters.search))

IsEmptyPage ==
  /\ api.response.status = 200
  /\ api.response.body = [items |-> <<>>, nextCursor |-> NullText, hasMore |-> FALSE]

\* C17 as stated: every store failure a list call ends on is reported as
\* EXPENSES_QUERY_FAILED with status 500, and a query without rows succeeds
\* with the empty page.
C17_StoreFailureIsQueryFailed ==
  /\ EndedOnFailure
       => (api.response.status = 500 /\ api.response.code = "EXPENSES_QUERY_FAILED")
  /\ AnsweredWithoutRows => IsEmptyPage

\* C17, amended: a store failure a list call ends on is reported with status
\* 500, as TIMEZONE_LOOKUP_FAILED when the timezone lookup failed and as
\* EXPENSES_QUERY_FAILED when the query failed, never as a page; a query
\* without rows succeeds with the empty page.
C17_StoreFailureIsAnError ==
  /\ EndedOnFailure
       => /\ api.response.status = 500
          /\ api.response.code = IF LastCall.table = "profiles"
                                 THEN "TIMEZONE_LOOKUP_FAILED"
                                 ELSE "EXPENSES_QUERY_FAILED"
  /\ AnsweredWithoutRows => IsEmptyPage

\* a failed query reported as EXPENSES_QUERY_FAILED while rows were stored
C17_Witness ==
  /\ EndedOnFailure /\ LastCall.table = "expenses"
  /\ api.response.code = "EXPENSES_QUERY_FAILED"
  /\ \E row \in api.store : row.user_id = "u1" /\ row.deleted_at = NoInstant

\* the search query of the request failed for want of the search mechanism
SearchUnavailable ==
  /\ api.pc = "done" /\ Len(api.calls) >= 2
  /\ api.calls[2].mode = "textSearch"
  /\ api.calls[2].outcome \in {"42704 similarity", "pg_trgm"}

C19_ReadsHideDeleted ==
  /\ ~listFilters.includeDeleted
       => \A k \in 1 .. Len(listResp.items) :
            listResp.items[k].deletedAt = NoInstant /\ ~listResp.items[k].deleted
  /\ (lifeReply.op = "get" /\ lifeReply.code = "ok")
       => (lifeReply.expense.deletedAt = NoInstant /\ ~lifeReply.expense.deleted)

\* the caller's expense is soft deleted: the list without deleted rows is
\* empty and get-by-id does not find it
C19_Witness ==
  /\ \E row \in expenses : row.user_id = "u1" /\ deleted(row)
  /\ "search" \in DOMAIN listFilters /\ ~listFilters.includeDeleted
  /\ listResp.items = <<>>
  /\ lifeReply.op = "get" /\ lifeReply.expenseId = 1
  /\ lifeReply.code = "EXPENSE_NOT_FOUND"

(***************************************************************************)
(* The upsert applied again.                                               *)
(***************************************************************************)
\* the step is the successful write of the upsert of request `slot`
UpsertApplied(slot) ==
  /\ req[slot].op = "upsert" /\ req[slot].pc = "write"
  /\ req'[slot].op = "idle"
  /\ mapReply'.op = "upsert" /\ mapReply'.code = "ok"

\* the upsert of request `slot` is already in force
AlreadyApplied(slot) ==
  \E row \in mappings :
    /\ row.user_id = "u1"
    /\ row.merchant_key = normalizeMerchantName(req[slot].name)
    /\ row.category_id = req[slot].categoryId

\* C20: an upsert of a user, merchant name and category that is already in
\* force leaves the merchant mappings as they are, and answers with the one
\* mapping of that key, its id, key and category unchanged.
C20_UpsertIdempotent ==
  [][\A slot \in ReqSlots :
       (UpsertApplied(slot) /\ AlreadyApplied(slot))
         => /\ mappings' = mappings
            /\ mapReply'.row \in mappings
            /\ mapReply'.row = mapReply'.prior]_vars

\* an upsert wrote over the mapping an equal upsert had left
C20_Witness ==
  /\ mapReply.op = "upsert" /\ mapReply.code = "ok"
  /\ mapReply.prior # NoMapping /\ mapReply.prior = mapReply.row
  /\ mapReply.row \in mappings
  /\ \E entry \in learned :
       /\ entry.id = mapReply.row.id /\ entry.name = mapReply.name
       /\ entry.categoryId = mapReply.row.category_id

(***************************************************************************)
(* The key of a mapping, and what an upsert reports.                       *)
(***************************************************************************)
\* C21: no step changes the key, the owner or the id of a mapping that is
\* there before and after it: an update and an upsert that hits an existing
\* (user, key) change the category reference only.
C21_KeyNeverChanges ==
  [][\A row \in mappings :
       \A after \in mappings' :
         after.id = row.id
           => /\ after.merchant_key = row.merchant_key
              /\ after.user_id = row.user_id]_vars

\* an upsert gave an existing mapping another category and left the rest
C21_Witness ==
  /\ mapReply.op = "upsert" /\ mapReply.code = "ok"
  /\ mapReply.prior # NoMapping
  /\ mapReply.prior.category_id # mapReply.row.category_id
  /\ mapReply.row = [mapReply.prior EXCEPT !.category_id = mapReply.row.category_id]
  /\ mapReply.row \in mappings

\* C22: an upsert answers 201 (wasCreated) exactly when its write created
\* the mapping and 200 when it updated one that was there; so of two
\* concurrent upserts of a new (user, key) exactly one reports creation.
C22_CreatedIffInserted ==
  (mapReply.op = "upsert" /\ mapReply.code = "ok")
    => /\ mapReply.wasCreated <=> mapReply.prior = NoMapping
       /\ statusCode(mapReply.wasCreated)
            = IF mapReply.prior = NoMapping THEN 201 ELSE 200

(***************************************************************************)
(* Restoring an expense that is not deleted.                               *)
(***************************************************************************)
\* C23: a restore that answers at once for an expense of the caller that is
\* there and not soft-deleted answers 409 Conflict (EXPENSE_NOT_DELETED) and
\* leaves the store as it was.
C23_RestoreOfActiveIsConflict ==
  [][(/\ lifeReply'.op = "restore"
      /\ lifeReply' # lifeReply
      /\ ereq' = ereq
      /\ \E row \in expenses :
            /\ row.id = lifeReply'.expenseId
            /\ row.user_id = "u1"
            /\ ~deleted(row))
       => /\ lifeReply'.code = "EXPENSE_NOT_DELETED"
          /\ restoreErrorStatus(lifeReply'.code) = 409
          /\ expenses' = expenses]_vars

(***************************************************************************)
(* The account of a created expense, and the profile.                      *)
(***************************************************************************)
\* what the profile of the caller held before the call
ProfileBefore ==
  {row \in created.before.profiles : row.id = created.userId}

\* C24: a create call stores the account of the input when there is one,
\* else the last_account of the caller's profile; with neither it fails with
\* ACCOUNT_REQUIRED; and a call that fails leaves the expenses as they were.
C24_AccountResolution ==
  created # NoCreated =>
    /\ created.result.code = "ok" =>
         /\ \E row \in expenses \ created.before.expenses :
              /\ expenses = created.before.expenses \cup {row}
              /\ row.user_id = created.userId
              /\ row.account = IF created.input.account # NULL
                               THEN created.input.account
                               ELSE (CHOOSE p \in ProfileBefore : TRUE).last_account
              /\ row.account \in Accounts
              /\ created.result.expense = toExpenseDTO(row)
    /\ created.result.code # "ok" => expenses = created.before.expenses
    /\ (/\ created.fault # "profiles.select"
        /\ created.input.account = NULL
        /\ \E p \in ProfileBefore : p.last_account = NULL)
         => created.result.code = "ACCOUNT_REQUIRED"
    /\ created.result.code = "ACCOUNT_REQUIRED"
         => /\ created.input.account = NULL
            /\ \E p \in ProfileBefore : p.last_account = NULL

\* an expense was stored with the profile's account, the input having none
C24_Witness ==
  /\ created # NoCreated /\ created.result.code = "ok"
  /\ created.input.account = NULL
  /\ \E row \in expenses \ created.before.expenses :
       \E p \in ProfileBefore : row.account = p.last_account /\ row.account = "cash"

C25_UpdateSparesDeleted ==
  [][\A slot \in LifeSlots :
       (ereq[slot].op = "update" /\ ereq'[slot].op = "idle")
         => \A row \in expenses :
              deleted(row)
                => /\ row \in expenses'
                   /\ (row.id = ereq[slot].expenseId /\ row.user_id = "u1")
                        => lifeReply'.code = "EXPENSE_NOT_FOUND"]_vars

\* C26: the write of a soft delete never replaces a deleted_at that is set:
\* of two concurrent deletes of one expense the later ends as not found and
\* deleted_at keeps the instant of the first.
C26_DeleteKeepsFirstInstant ==
  [][\A slot \in LifeSlots :
       (ereq[slot].op = "delete" /\ ereq'[slot].op = "idle")
         => \A row \in expenses :
              (deleted(row) /\ row.id = ereq[slot].expenseId /\ row.user_id = "u1")
                => /\ row \in expenses'
                   /\ lifeReply'.code = "EXPENSE_NOT_FOUND"]_vars

(***************************************************************************)
(* The pages of the mapping list.                                          *)
(***************************************************************************)
\* every mapping the filters of the chain match, in the order of the list
MatchingMappings ==
  LET ordered == OrderAsc({row \in mappings : mappingMatches(row, "u1", mlist.search)})
  IN [i \in 1 .. Len(ordered) |-> toMerchantMappingDTO(ordered[i])]

\* C27: a chain of pages followed to its end returns every matching mapping
\* once, in the order of merchant key and id; and the nextCursor of a page is
\* made of the last item of that page.
C27_PagesCoverEveryMapping ==
  mlist # NoMList =>
    /\ mlist.resp.nextCursor = NullText
         => Concat(mlist.pages) = MatchingMappings
    /\ mlist.resp.nextCursor # NullText
         => LET last == mlist.resp.items[Len(mlist.resp.items)]
            IN mlist.resp.nextCursor
                 = encodeMerchantMappingCursor(last.merchantKey, last.id)

(***************************************************************************)
(* The windows of consecutive months.                                      *)
(***************************************************************************)
\* C29: the window of a month begins a millisecond after the window of the
\* month before it ends, for every timezone of the user: no instant is in
\* both windows and none of millisecond precision lies between them.
C29_ConsecutiveWindowsMeet ==
  dash.pc = "done"
    => AddTicks(DashResponse.previousBoundaries.end, MS)
         = DashResponse.currentBoundaries.start

(***************************************************************************)
(* The list's month presets and the dashboard's months.                    *)
(***************************************************************************)
\* C30: for one timezone and one instant the window of the list's this_month
\* is the dashboard's window of the current month, and the window of
\* last_month is the dashboard's window of the month before; so the
\* dashboard's total is the sum of the amounts the list shows.
C30_ListWindowIsDashboardWindow ==
  win.pc = "done"
    => /\ win.this_month = win.current
       /\ win.last_month = win.previous

====
